---- MODULE Spec2Model ----
(***************************************************************************)
(* Beam transport through an accelerator lattice (src/src/elements.py,     *)
(* src/src/beamline.py, src/src/twiss.py, src/src/matching.py).            *)
(*                                                                         *)
(* Python objects live in a heap (a sequence of records; the index is the  *)
(* object's identity) and a Beamline holds a list of references into it,   *)
(* exactly as `self.elements.append(element)` stores a reference.          *)
(*                                                                         *)
(* Floats are modelled as <<n, d, e>> = (n / d) * 10^(-e).  An operation   *)
(* is exact whenever its result fits the integer width; when it does not,  *)
(* the operands are first rounded to MantissaMax, 8 decimal digits (the    *)
(* analogue of the rounding of an IEEE double, with a shorter mantissa).   *)
(***************************************************************************)
EXTENDS Integers, Sequences, FiniteSets

(***************************************************************************)
(* Bounds of the model                                                     *)
(***************************************************************************)
MaxObjs == 2        \* objects ever constructed in Spec
MaxLen == 2         \* elements per lattice in Spec
MaxVals == 2        \* length of a strengths vector
MaxEvals == 1       \* loss evaluations of one optimizer run after x0
MaxLenMatch == 2    \* elements of the lattice in SpecMatch
MaxLenOrder == 3    \* elements of the lattice in SpecOrder

MaxInt == 2147483647
MantissaMax == 99999999

(***************************************************************************)
(* Numbers: <<n, d, e>> is (n / d) * 10^(-e), in canonical form            *)
(* (gcd(n, d) = 1, d > 0 coprime to 10, n not a multiple of 10), so that   *)
(* equal numbers are equal tuples.                                         *)
(***************************************************************************)
Abs(n) == IF n < 0 THEN -n ELSE n
Max(a, b) == IF a < b THEN b ELSE a
Fits(a, b) == a = 0 \/ b = 0 \/ Abs(a) <= MaxInt \div Abs(b)

Zero == <<0, 1, 0>>
One == <<1, 1, 0>>
Two == <<2, 1, 0>>

\* Python's None and a missing attribute, typed like a number so that
\* fields can be compared; neither is a number (d = 0).
None == <<0, 0, 0>>
Unset == <<1, 0, 0>>
IsNum(x) == x[2] > 0

RECURSIVE GCD(_, _)
GCD(a, b) == IF b = 0 THEN a ELSE GCD(b, a % b)

RECURSIVE Pow10(_)
Pow10(k) == IF k = 0 THEN 1 ELSE 10 * Pow10(k - 1)
Pow10Fits(k) == k <= 9

\* rounding to a mantissa of at most MantissaMax (truncation): the result
\* has denominator 1.  LongDiv appends decimal digits of (q + r / d) to q
\* while the mantissa permits (r and d are scaled down when r * 10 does not
\* fit the integer width).
RECURSIVE LongDiv(_, _, _, _)
LongDiv(q, r, d, e) ==
    IF q > (MantissaMax - 9) \div 10 THEN <<q, 1, e>>
    ELSE IF ~Fits(r, 10) THEN LongDiv(q, r \div 10, d \div 10 + 1, e)
    ELSE LongDiv(q * 10 + (r * 10) \div d, (r * 10) % d, d, e + 1)
ShrinkUp(n, d, e) == LongDiv(n \div d, n % d, d, e)

RECURSIVE ShrinkDown(_, _)
ShrinkDown(n, e) ==
    IF n <= MantissaMax THEN <<n, 1, e>> ELSE ShrinkDown(n \div 10, e - 1)

ShrinkDownOf(u) == ShrinkDown(u[1], u[3])
ShrinkPos(n, d, e) == ShrinkDownOf(ShrinkUp(n, d, e))

Signed(neg, c) == IF neg THEN <<-c[1], c[2], c[3]>> ELSE c
Shrink(x) == Signed(x[1] < 0, ShrinkPos(Abs(x[1]), x[2], x[3]))

\* canonical form of (n / d) * 10^(-e), n > 0, gcd(n, d) = 1; a mantissa
\* that cannot be brought to canonical form within the integer width is
\* rounded
RECURSIVE Canon(_, _, _)
CanonShrunk(s) == IF s[1] = 0 THEN Zero ELSE Canon(s[1], 1, s[3])
Canon(n, d, e) ==
    IF d % 10 = 0 THEN Canon(n, d \div 10, e + 1)
    ELSE IF d % 2 = 0 \/ d % 5 = 0 THEN
        IF ~Fits(n, 5) THEN CanonShrunk(ShrinkPos(n, d, e))
        ELSE IF d % 2 = 0 THEN Canon(n * 5, d \div 2, e + 1)
        ELSE Canon(n * 2, d \div 5, e + 1)
    ELSE IF n % 10 = 0 THEN Canon(n \div 10, d, e - 1)
    ELSE <<n, d, e>>

NormBy(n, d, e, g) == Signed(n < 0, Canon(Abs(n) \div g, d \div g, e))
Norm(n, d, e) == IF n = 0 THEN Zero ELSE NormBy(n, d, e, GCD(Abs(n), d))

R(n) == Norm(n, 1, 0)
Q(n, d) == Norm(n, d, 0)

RNeg(x) == <<-x[1], x[2], x[3]>>
RAbs(x) == <<Abs(x[1]), x[2], x[3]>>

\* x * y from the cross-cancelled factors a * b / (c * d); on operands
\* rounded first when a product does not fit, and then from the halves
\* m = Hi(m) * 10^4 + Lo(m) of the two mantissas, to 7 digits or more
Hi(m) == m \div 10000
Lo(m) == m % 10000
Cross(a, b) == Hi(a) * Lo(b) + Lo(a) * Hi(b)
MulHalves(a, b, e) ==
    IF Hi(a) * Hi(b) < 10000000
    THEN Norm(Hi(a) * Hi(b) * 10 + Cross(a, b) \div 1000 + (Lo(a) * Lo(b)) \div 10000000, 1, e - 7)
    ELSE Norm(Hi(a) * Hi(b) + Cross(a, b) \div 10000, 1, e - 8)
RMulShrunk(xs, ys) ==
    Signed((xs[1] < 0) # (ys[1] < 0), MulHalves(Abs(xs[1]), Abs(ys[1]), xs[3] + ys[3]))
RMulOf(x, y, a, b, c, d) ==
    IF Fits(a, b) /\ Fits(c, d)
    THEN Signed((x[1] < 0) # (y[1] < 0), Canon(a * b, c * d, x[3] + y[3]))
    ELSE RMulShrunk(Shrink(x), Shrink(y))
RMulBy(x, y, g1, g2) ==
    RMulOf(x, y, Abs(x[1]) \div g1, Abs(y[1]) \div g2, x[2] \div g2, y[2] \div g1)
RMul(x, y) ==
    IF x[1] = 0 \/ y[1] = 0 THEN Zero
    ELSE IF x = One THEN y
    ELSE IF y = One THEN x
    ELSE RMulBy(x, y, GCD(Abs(x[1]), y[2]), GCD(Abs(y[1]), x[2]))

\* x and y can be brought to the common exponent max(x[3], y[3])
AlignFits(x, y) ==
    /\ Pow10Fits(Max(x[3], y[3]) - x[3]) /\ Pow10Fits(Max(x[3], y[3]) - y[3])
    /\ Fits(x[1], Pow10(Max(x[3], y[3]) - x[3]))
    /\ Fits(y[1], Pow10(Max(x[3], y[3]) - y[3]))

\* m / 10^k truncated towards zero
Coarse(m, k) == IF m < 0 THEN -((-m) \div Pow10(k)) ELSE m \div Pow10(k)

\* after rounding, the sum at the exponent of the coarser summand and one
\* guard digit; a summand more than 9 decimal orders below the other is
\* absorbed
RAddCoarse(c, f) ==
    IF f[3] = c[3] THEN Norm(c[1] + f[1], 1, c[3])
    ELSE Norm(c[1] * 10 + Coarse(f[1], f[3] - c[3] - 1), 1, c[3] + 1)
RAddShrunk(xs, ys, m) ==
    IF xs[1] = 0 THEN ys
    ELSE IF ys[1] = 0 THEN xs
    ELSE IF xs[3] - ys[3] > 9 THEN ys
    ELSE IF ys[3] - xs[3] > 9 THEN xs
    ELSE IF xs[3] <= ys[3] THEN RAddCoarse(xs, ys)
    ELSE RAddCoarse(ys, xs)
RAddRounded(xs, ys) == RAddShrunk(xs, ys, Max(xs[3], ys[3]))

\* a / p + b / q at exponent m, with p = p1 * g and q = q1 * g
RAddOf(x, y, a, b, p1, q1, m) ==
    IF /\ Fits(a, q1) /\ Fits(b, p1) /\ Fits(x[2], q1)
       /\ Abs(a * q1) <= MaxInt - Abs(b * p1)
    THEN Norm(a * q1 + b * p1, x[2] * q1, m)
    ELSE RAddRounded(Shrink(x), Shrink(y))
RAddBy(x, y, m, g) ==
    RAddOf(x, y, x[1] * Pow10(m - x[3]), y[1] * Pow10(m - y[3]),
           x[2] \div g, y[2] \div g, m)
RAdd(x, y) ==
    IF x[1] = 0 THEN y
    ELSE IF y[1] = 0 THEN x
    ELSE IF AlignFits(x, y) THEN RAddBy(x, y, Max(x[3], y[3]), GCD(x[2], y[2]))
    ELSE RAddRounded(Shrink(x), Shrink(y))

RSub(x, y) == RAdd(x, RNeg(y))
RInv(x) == IF x[1] < 0 THEN Norm(-x[2], -x[1], -x[3]) ELSE Norm(x[2], x[1], -x[3])
RDiv(x, y) == RMul(x, RInv(y))
RSq(x) == RMul(x, x)

\* a / b < c / d for b, d > 0, free of overflow (continued-fraction descent)
RECURSIVE FracLt(_, _, _, _)
FracLt(a, b, c, d) ==
    IF a \div b # c \div d THEN a \div b < c \div d
    ELSE IF c % d = 0 THEN FALSE
    ELSE IF a % b = 0 THEN TRUE
    ELSE FracLt(d, c % d, b, a % b)

Sign(x) == IF x[1] < 0 THEN -1 ELSE IF x[1] = 0 THEN 0 ELSE 1

\* 0 < x < y, exactly when the alignment fits, on rounded operands otherwise
PosLtShrunk(xs, ys, m) ==
    IF xs[3] - ys[3] > 9 THEN TRUE
    ELSE IF ys[3] - xs[3] > 9 THEN FALSE
    ELSE IF xs[3] >= ys[3] THEN xs[1] \div Pow10(xs[3] - ys[3]) < ys[1]
    ELSE xs[1] <= (ys[1] - 1) \div Pow10(ys[3] - xs[3])
PosLtAt(x, y, m) ==
    FracLt(x[1] * Pow10(m - x[3]), x[2], y[1] * Pow10(m - y[3]), y[2])
PosLt(x, y) ==
    IF AlignFits(x, y) THEN PosLtAt(x, y, Max(x[3], y[3]))
    ELSE PosLtShrunk(Shrink(x), Shrink(y), Max(Shrink(x)[3], Shrink(y)[3]))

RLt(x, y) ==
    IF Sign(x) # Sign(y) THEN Sign(x) < Sign(y)
    ELSE IF Sign(x) = 0 THEN FALSE
    ELSE IF Sign(x) > 0 THEN PosLt(x, y)
    ELSE PosLt(RNeg(y), RNeg(x))
RLe(x, y) == x = y \/ RLt(x, y)
RGt(x, y) == RLt(y, x)

\* np.float thresholds of the source
Tiny == <<1, 1, 10>>            \* 1e-10
GtTiny(x) == RGt(RAbs(x), Tiny)
LeTiny(x) == RLe(RAbs(x), Tiny)     \* abs(x) <= 1e-10, the threshold included
LtTiny(x) == RLt(RAbs(x), Tiny)

(***************************************************************************)
(* numpy functions.  np.sqrt is exact on the squares the model uses.       *)
(* np.cos/np.sin (np.cosh/np.sinh) take their value at the rational point  *)
(* of the unit circle (hyperbola) given by a rational value of tan(x/2)    *)
(* (tanh(x/2)), so that cos^2+sin^2 = 1 and cosh^2-sinh^2 = 1 hold as      *)
(* they do for the real functions:                                         *)
(*   x = 1: tan(1/2) ~ 1/2, tanh(1/2) ~ 3/7;                               *)
(*   x = 2: tan(1) ~ 3/2, tanh(1) ~ 3/4.                                   *)
(***************************************************************************)
SqrtInt(n) == CHOOSE i \in 0..n : i * i = n
Sqrt(x) == Norm(SqrtInt(x[1]), SqrtInt(x[2]), x[3] \div 2)

\* further points: x = 4 with tan(2) ~ -2, tanh(2) ~ 27/28; x = 1e-5, where
\* cos and cosh round to 1 and sin and sinh to x; x = 20 with tan(10) ~ 2/3,
\* where the doubles np.cosh(20) and np.sinh(20) are one and the same number,
\* 242582597.70489514 (they differ by exp(-20), below the spacing of doubles)
Small == <<1, 1, 5>>
Cos(x) == CASE x = One -> <<6, 1, 1>> [] x = Two -> <<-5, 13, 0>> [] x = R(4) -> <<-6, 1, 1>> [] x = Small -> One [] x = R(20) -> <<5, 13, 0>>
Sin(x) == CASE x = One -> <<8, 1, 1>> [] x = Two -> <<12, 13, 0>> [] x = R(4) -> <<-8, 1, 1>> [] x = Small -> Small [] x = R(20) -> <<12, 13, 0>>
Cosh(x) == CASE x = One -> <<145, 1, 2>> [] x = Two -> <<25, 7, 0>> [] x = R(4) -> <<1513, 55, 0>> [] x = Small -> One [] x = R(20) -> <<242582598, 1, 0>>
Sinh(x) == CASE x = One -> <<105, 1, 2>> [] x = Two -> <<24, 7, 0>> [] x = R(4) -> <<1512, 55, 0>> [] x = Small -> Small [] x = R(20) -> <<242582598, 1, 0>>

\* floor of the square root of n (Newton's iteration from above)
RECURSIVE ISqrtFrom(_, _)
ISqrtFrom(n, g) == IF (g + n \div g) \div 2 >= g THEN g ELSE ISqrtFrom(n, (g + n \div g) \div 2)
ISqrt(n) == IF n = 0 THEN 0 ELSE ISqrtFrom(n, 46340)

IsSquare(n) == ISqrt(n) * ISqrt(n) = n

\* the square root of the rounded s = m * 10^(-e), brought to an even
\* exponent, and one Newton step (g + x / g) / 2 from it
SqrtShrunk(s) ==
    IF s[3] % 2 = 0 THEN Norm(ISqrt(s[1]), 1, s[3] \div 2)
    ELSE Norm(ISqrt(s[1] * 10), 1, (s[3] + 1) \div 2)
SqrtNewton(x, g) == RMul(<<5, 1, 1>>, RAdd(g, RDiv(x, g)))

\* np.sqrt of x >= 0 in general: exact on squares, rounded otherwise
SqrtFloat(x) ==
    IF x[1] = 0 THEN Zero
    ELSE IF IsSquare(x[1]) /\ IsSquare(x[2]) /\ x[3] % 2 = 0
    THEN Norm(ISqrt(x[1]), ISqrt(x[2]), x[3] \div 2)
    ELSE SqrtNewton(x, SqrtShrunk(Shrink(x)))

\* np.arccos(x), -1 <= x <= 1: the angle mu in [0, pi], held by its cosine;
\* `turns` is mu / (2 pi) by the chord (1 - x) / 4, which is exact at
\* mu = 0, pi/2 and pi and monotone in between
ArcCos(x) == [cos |-> x, turns |-> RDiv(RSub(One, x), R(4))]
\* np.sin(mu) of such an angle: sin(mu) >= 0 and sin^2 + cos^2 = 1
SinAngle(mu) == SqrtFloat(RSub(One, RSq(mu.cos)))


(***************************************************************************)
(* Matrices (np.ndarray): sequences of rows, built element by element      *)
(***************************************************************************)
\* sum over k = 1..n of A[i][k] * B[k][j]
RECURSIVE Dot(_, _, _, _, _)
Dot(A, B, i, j, n) ==
    IF n = 0 THEN Zero ELSE RAdd(Dot(A, B, i, j, n - 1), RMul(A[i][n], B[n][j]))

RECURSIVE MatMulRow(_, _, _, _)
MatMulRow(A, B, i, j) ==
    IF j = 0 THEN <<>> ELSE Append(MatMulRow(A, B, i, j - 1), Dot(A, B, i, j, Len(B)))
RECURSIVE MatMulRows(_, _, _)
MatMulRows(A, B, i) ==
    IF i = 0 THEN <<>> ELSE Append(MatMulRows(A, B, i - 1), MatMulRow(A, B, i, Len(B[1])))
MatMul(A, B) == MatMulRows(A, B, Len(A))

RECURSIVE TransposeRow(_, _, _)
TransposeRow(A, i, j) ==
    IF j = 0 THEN <<>> ELSE Append(TransposeRow(A, i, j - 1), A[j][i])
RECURSIVE TransposeRows(_, _)
TransposeRows(A, i) ==
    IF i = 0 THEN <<>> ELSE Append(TransposeRows(A, i - 1), TransposeRow(A, i, Len(A)))
Transpose(A) == TransposeRows(A, Len(A[1]))

\* A @ v for a vector v
RECURSIVE DotVec(_, _, _, _)
DotVec(A, v, i, n) ==
    IF n = 0 THEN Zero ELSE RAdd(DotVec(A, v, i, n - 1), RMul(A[i][n], v[n]))
RECURSIVE MatVecFrom(_, _, _)
MatVecFrom(A, v, i) ==
    IF i = 0 THEN <<>> ELSE Append(MatVecFrom(A, v, i - 1), DotVec(A, v, i, Len(v)))
MatVec(A, v) == MatVecFrom(A, v, Len(A))

RECURSIVE ScaleRow(_, _, _)
ScaleRow(c, row, j) ==
    IF j = 0 THEN <<>> ELSE Append(ScaleRow(c, row, j - 1), RMul(c, row[j]))
RECURSIVE ScaleRows(_, _, _)
ScaleRows(c, A, i) ==
    IF i = 0 THEN <<>> ELSE Append(ScaleRows(c, A, i - 1), ScaleRow(c, A[i], Len(A[i])))
Scale(c, A) == ScaleRows(c, A, Len(A))

RECURSIVE EyeRow(_, _)
EyeRow(i, j) ==
    IF j = 0 THEN <<>> ELSE Append(EyeRow(i, j - 1), IF i = j THEN One ELSE Zero)
RECURSIVE EyeRows(_, _)
EyeRows(n, i) == IF i = 0 THEN <<>> ELSE Append(EyeRows(n, i - 1), EyeRow(i, n))
Eye(n) == EyeRows(n, n)

(***************************************************************************)
(* Elements (src/src/elements.py).  An object is a record; `exc` results   *)
(* name the Python exception a call raises, "None" when it returns.        *)
(***************************************************************************)
Drift(L) ==
    [type |-> "Drift", length |-> L, L |-> L, k |-> None, f |-> None, f_thin |-> Unset]

\* a constructor that accepts a quadrupole without k and without f
Quadrupole_exc_accept(k, length, f) == "None"

\* Quadrupole.__init__(k, length, f): the exception it raises
Quadrupole_exc(k, length, f) ==
    IF k # None THEN "None"
    ELSE IF f # None THEN "None"
    ELSE "ValueError"

\* the object after __init__ has assigned k, f and length
QuadrupoleOf(k, f, length) ==
    [type |-> "Quadrupole", length |-> IF RGt(length, Zero) THEN length ELSE Zero,
     L |-> None, k |-> k, f |-> f, f_thin |-> Unset]

\* Quadrupole.__init__(k, length, f): the object it leaves
Quadrupole(k, length, f) ==
    IF k # None THEN
        QuadrupoleOf(k, IF length = Zero /\ GtTiny(k) THEN RDiv(One, k) ELSE None, length)
    ELSE IF f # None /\ RGt(length, Zero) THEN
        QuadrupoleOf(IF GtTiny(f) THEN RDiv(One, RMul(f, length)) ELSE Zero, f, length)
    ELSE QuadrupoleOf(Zero, f, length)

\* a constructor that tests `if not length`: a length of 0 is replaced too
Dipole_falsy(rho, angle, length) ==
    [type |-> "Dipole",
     length |-> IF length = None \/ length = Zero THEN RMul(rho, angle) ELSE length,
     L |-> None, k |-> None, f |-> None, f_thin |-> Unset, rho |-> rho, angle |-> angle]

\* Dipole.__init__(rho, angle, length): length = rho*angle when it is None
Dipole(rho, angle, length) ==
    [type |-> "Dipole", length |-> IF length = None THEN RMul(rho, angle) ELSE length,
     L |-> None, k |-> None, f |-> None, f_thin |-> Unset, rho |-> rho, angle |-> angle]

\* Sextupole(k2, length): nonlinear strength k2 and length; no linear matrix
Sextupole(k2, length) ==
    [type |-> "Sextupole", length |-> length, L |-> None, k |-> None, f |-> None,
     f_thin |-> Unset, k2 |-> k2]

IsQuad(e) == e.type = "Quadrupole"
IsDipole(e) == e.type = "Dipole"
IsSextupole(e) == e.type = "Sextupole"

\* the exception raised by e.matrix_x() / e.matrix_y()
matrix_exc(e) ==
    IF IsQuad(e) /\ e.length = Zero THEN
        IF e.f = None THEN "TypeError"
        ELSE IF e.f = Zero THEN "ZeroDivisionError"
        ELSE "None"
    ELSE "None"

\* the drift matrix transposed: [[1, 0], [L, 1]]
DriftMatrix_transposed(L) == <<<<One, Zero>>, <<L, One>>>>

DriftMatrix(L) == <<<<One, L>>, <<Zero, One>>>>

\* [[cos(kl), sin(kl)/sqrt_k], [-sqrt_k*sin(kl), cos(kl)]]
TrigMatrixOf(sqrt_k, cos_kl, sin_kl) ==
    <<<<cos_kl, RDiv(sin_kl, sqrt_k)>>, <<RMul(RNeg(sqrt_k), sin_kl), cos_kl>>>>
TrigMatrixAt(sqrt_k, kl) == TrigMatrixOf(sqrt_k, Cos(kl), Sin(kl))
TrigMatrixBy(sqrt_k, length) == TrigMatrixAt(sqrt_k, RMul(sqrt_k, length))
TrigMatrix(k, length) == TrigMatrixBy(Sqrt(k), length)

\* [[cosh(kl), sinh(kl)/sqrt_k], [sqrt_k*sinh(kl), cosh(kl)]]
HypMatrixOf(sqrt_k, cosh_kl, sinh_kl) ==
    <<<<cosh_kl, RDiv(sinh_kl, sqrt_k)>>, <<RMul(sqrt_k, sinh_kl), cosh_kl>>>>
HypMatrixAt(sqrt_k, kl) == HypMatrixOf(sqrt_k, Cosh(kl), Sinh(kl))
HypMatrixBy(sqrt_k, length) == HypMatrixAt(sqrt_k, RMul(sqrt_k, length))
HypMatrix(k, length) == HypMatrixBy(Sqrt(k), length)

Quadrupole_matrix_x(e) ==
    IF e.length = Zero THEN <<<<One, Zero>>, <<RDiv(RNeg(One), e.f), One>>>>
    ELSE IF LtTiny(e.k) THEN DriftMatrix(e.length)
    ELSE IF RGt(e.k, Zero) THEN TrigMatrix(e.k, e.length)
    ELSE HypMatrix(RNeg(e.k), e.length)

\* matrix_y with the sign of k of matrix_x
Quadrupole_matrix_y_same(e) == Quadrupole_matrix_x(e)

Quadrupole_matrix_y(e) ==
    IF e.length = Zero THEN <<<<One, Zero>>, <<RDiv(One, e.f), One>>>>
    ELSE IF LtTiny(e.k) THEN DriftMatrix(e.length)
    ELSE IF RGt(e.k, Zero) THEN HypMatrix(e.k, e.length)
    ELSE TrigMatrix(RNeg(e.k), e.length)

\* Dipole.matrix_x with the lower left entry +sin(theta)/rho
Dipole_matrix_x_sign(e) ==
    <<<<Cos(e.angle), RMul(e.rho, Sin(e.angle))>>,
      <<RDiv(Sin(e.angle), e.rho), Cos(e.angle)>>>>

\* [[cos(theta), rho*sin(theta)], [-sin(theta)/rho, cos(theta)]]
Dipole_matrix_x(e) ==
    <<<<Cos(e.angle), RMul(e.rho, Sin(e.angle))>>,
      <<RDiv(RNeg(Sin(e.angle)), e.rho), Cos(e.angle)>>>>

Dipole_matrix_y(e) == DriftMatrix(e.length)

matrix_x(e) ==
    IF IsQuad(e) THEN Quadrupole_matrix_x(e)
    ELSE IF IsDipole(e) THEN Dipole_matrix_x(e)
    ELSE DriftMatrix(e.L)
matrix_y(e) ==
    IF IsQuad(e) THEN Quadrupole_matrix_y(e)
    ELSE IF IsDipole(e) THEN Dipole_matrix_y(e)
    ELSE DriftMatrix(e.L)

\* matrix_4d with the vertical block written at rows [2:4], cols [0:2]
Blocks4d_misplaced(Mx, My) ==
    <<<<Mx[1][1], Mx[1][2], Zero, Zero>>,
      <<Mx[2][1], Mx[2][2], Zero, Zero>>,
      <<My[1][1], My[1][2], Zero, Zero>>,
      <<My[2][1], My[2][2], Zero, Zero>>>>

\* Element.matrix_4d: zeros, then the two diagonal blocks
Blocks4d(Mx, My) ==
    <<<<Mx[1][1], Mx[1][2], Zero, Zero>>,
      <<Mx[2][1], Mx[2][2], Zero, Zero>>,
      <<Zero, Zero, My[1][1], My[1][2]>>,
      <<Zero, Zero, My[2][1], My[2][2]>>>>
matrix_4d(e) == Blocks4d(matrix_x(e), matrix_y(e))

Element_track_4d(e, state_4d) == MatVec(matrix_4d(e), state_4d)

Millimetre == <<1, 1, 3>>

\* a kick taken about an axis displaced by 1 mm in x
Sextupole_track_particle_nonlinear_offset(e, state) ==
    <<state[1],
      RAdd(state[2], RMul(RMul(RMul(Q(-1, 2), e.k2), e.length),
                          RSub(RSq(RSub(state[1], Millimetre)), RSq(state[3])))),
      state[3],
      RAdd(state[4], RMul(RMul(RMul(e.k2, e.length), RSub(state[1], Millimetre)), state[3]))>>

\* Sextupole.track_particle_nonlinear: the thin kick
\* x' += -1/2 * k2 * L * (x^2 - y^2), y' += k2 * L * x * y; x and y are kept
Sextupole_track_particle_nonlinear(e, state) ==
    <<state[1],
      RAdd(state[2], RMul(RMul(RMul(Q(-1, 2), e.k2), e.length),
                          RSub(RSq(state[1]), RSq(state[3])))),
      state[3],
      RAdd(state[4], RMul(RMul(RMul(e.k2, e.length), state[1]), state[3]))>>

(***************************************************************************)
(* Beamline (src/src/beamline.py).  `h` is the heap and `els` the list     *)
(* self.elements of references into it.                                    *)
(***************************************************************************)
ElemAt(h, els, i) == h[els[i]]

\* the exception raised by the first element matrix a loop over the
\* lattice requests
RECURSIVE lattice_exc_from(_, _, _)
lattice_exc_from(h, els, i) ==
    IF i > Len(els) THEN "None"
    ELSE IF matrix_exc(ElemAt(h, els, i)) # "None" THEN matrix_exc(ElemAt(h, els, i))
    ELSE lattice_exc_from(h, els, i + 1)
lattice_exc(h, els) == lattice_exc_from(h, els, 1)

\* the product taken in the opposite order: M = M @ elem.matrix_x()
RECURSIVE one_turn_loop_rev(_, _, _)
one_turn_loop_rev(h, els, n) ==
    IF n = 0 THEN Eye(2)
    ELSE MatMul(one_turn_loop_rev(h, els, n - 1), matrix_x(ElemAt(h, els, n)))
one_turn_matrix_rev(h, els) == one_turn_loop_rev(h, els, Len(els))

\* M = np.eye(2); for elem in self.elements: M = elem.matrix_x() @ M
RECURSIVE one_turn_loop(_, _, _)
one_turn_loop(h, els, n) ==
    IF n = 0 THEN Eye(2)
    ELSE MatMul(matrix_x(ElemAt(h, els, n)), one_turn_loop(h, els, n - 1))
one_turn_matrix(h, els) == one_turn_loop(h, els, Len(els))

\* M = np.eye(4); for elem in self.elements: M = elem.matrix_4d() @ M
RECURSIVE one_turn_4d_loop(_, _, _)
one_turn_4d_loop(h, els, n) ==
    IF n = 0 THEN Eye(4)
    ELSE MatMul(matrix_4d(ElemAt(h, els, n)), one_turn_4d_loop(h, els, n - 1))
one_turn_matrix_4d(h, els) == one_turn_4d_loop(h, els, Len(els))

\* the criterion with the boundary admitted: abs(trace) <= 2
is_stable_4d_traces_le(trace_x, trace_y) ==
    [stable |-> RLe(RAbs(trace_x), Two) /\ RLe(RAbs(trace_y), Two),
     trace_x |-> trace_x, trace_y |-> trace_y]

\* is_stable = (abs(trace_x) < 2) and (abs(trace_y) < 2)
is_stable_4d_traces(trace_x, trace_y) ==
    [stable |-> RLt(RAbs(trace_x), Two) /\ RLt(RAbs(trace_y), Two),
     trace_x |-> trace_x, trace_y |-> trace_y]
is_stable_4d_of(M) ==
    is_stable_4d_traces(RAdd(M[1][1], M[2][2]), RAdd(M[3][3], M[4][4]))
is_stable_4d(h, els) == is_stable_4d_of(one_turn_matrix_4d(h, els))

\* stable, trace_x, _ = self.is_stable_4d(); return stable, trace_x
is_stable_of(s) == [stable |-> s.stable, trace_x |-> s.trace_x, trace_y |-> None]
is_stable(h, els) == is_stable_of(is_stable_4d(h, els))

\* sum(elem.length for elem in self.elements)
RECURSIVE get_length_loop(_, _, _)
get_length_loop(h, els, n) ==
    IF n = 0 THEN Zero ELSE RAdd(get_length_loop(h, els, n - 1), ElemAt(h, els, n).length)
get_length(h, els) == get_length_loop(h, els, Len(els))

\* state = state_4d.copy(); for elem in self.elements: state = elem.track_4d(state)
RECURSIVE track_4d_loop(_, _, _, _)
track_4d_loop(h, els, state_4d, n) ==
    IF n = 0 THEN state_4d
    ELSE Element_track_4d(ElemAt(h, els, n), track_4d_loop(h, els, state_4d, n - 1))
track_4d(h, els, state_4d) == track_4d_loop(h, els, state_4d, Len(els))

\* if isinstance(elem, Sextupole): state = elem.track_particle_nonlinear(state)
\* else: state = elem.track_4d(state)
nonlinear_step(e, state) ==
    IF IsSextupole(e) THEN Sextupole_track_particle_nonlinear(e, state)
    ELSE Element_track_4d(e, state)

\* the elements visited from the last to the first
RECURSIVE track_particle_nonlinear_loop_rev(_, _, _, _)
track_particle_nonlinear_loop_rev(h, els, state_4d, n) ==
    IF n = 0 THEN state_4d
    ELSE track_particle_nonlinear_loop_rev(h, els, nonlinear_step(ElemAt(h, els, n), state_4d), n - 1)

\* state = state_4d; for elem in self.elements: ...; the state after the
\* first n elements
RECURSIVE track_particle_nonlinear_loop(_, _, _, _)
track_particle_nonlinear_loop(h, els, state_4d, n) ==
    IF n = 0 THEN state_4d
    ELSE nonlinear_step(ElemAt(h, els, n), track_particle_nonlinear_loop(h, els, state_4d, n - 1))
track_particle_nonlinear(h, els, state_4d) ==
    track_particle_nonlinear_loop(h, els, state_4d, Len(els))

\* np.linspace(start, stop, num)[i]: start + i * step with
\* step = (stop - start) / (num - 1); the last sample is stop itself
linspace_at(start, stop, num, i) ==
    IF num > 1 /\ i = num - 1 THEN stop
    ELSE IF i = 0 THEN start
    ELSE RAdd(start, RMul(R(i), RDiv(RSub(stop, start), R(num - 1))))
np_linspace(start, stop, num) == [i \in 1..num |-> linspace_at(start, stop, num, i - 1)]

Turns == 100                        \* for turn in range(100)
ApertureBound == <<1, 1, 1>>        \* 0.1
AmplitudeFloor == <<1, 1, 3>>       \* 0.001

\* a test that also counts a particle standing on the bound as lost
flew_away_ge(state) ==
    RLe(ApertureBound, RAbs(state[1])) \/ RLe(ApertureBound, RAbs(state[3]))

\* abs(state[0]) > 0.1 or abs(state[2]) > 0.1
flew_away(state) ==
    RGt(RAbs(state[1]), ApertureBound) \/ RGt(RAbs(state[3]), ApertureBound)

\* if abs(state[0]) > 0.1 or abs(state[2]) > 0.1: stable = False.  `seen`
\* lists the states after the turns made so far, `state` is the last one.
aperture_checked(seen, state) ==
    [stable |-> ~flew_away(state), seen |-> Append(seen, state), state |-> state]

\* one pass of the loop body: state = self.track_particle_nonlinear(state)
\* and the test; after the break no further turn is made
aperture_turn(h, els, p) ==
    IF ~p.stable THEN p
    ELSE aperture_checked(p.seen, track_particle_nonlinear(h, els, p.state))

\* the next n passes of `for turn in range(100)`, made half by half; none
\* is made after the break
RECURSIVE aperture_turns(_, _, _, _)
aperture_rest(h, els, p, n) == IF p.stable THEN aperture_turns(h, els, p, n) ELSE p
aperture_turns(h, els, p, n) ==
    IF n = 0 THEN p
    ELSE IF n = 1 THEN aperture_turn(h, els, p)
    ELSE aperture_rest(h, els, aperture_turns(h, els, p, n \div 2), n - n \div 2)

\* state = np.array([amp, 0, 0, 0]); stable = True; the loop over the turns
aperture_particle(h, els, amp) ==
    aperture_turns(h, els, [stable |-> TRUE, seen |-> <<>>, state |-> <<amp, Zero, Zero, Zero>>], Turns)

\* amplitudes = np.linspace(0.001, max_amplitude, n_particles)
aperture_amplitudes(n_particles, max_amplitude) ==
    np_linspace(AmplitudeFloor, max_amplitude, n_particles)

\* get_dynamic_aperture(n_particles, max_amplitude): one record per amplitude
aperture_scan(h, els, amplitudes) ==
    [i \in 1..Len(amplitudes) |-> aperture_particle(h, els, amplitudes[i])]
get_dynamic_aperture(h, els, n_particles, max_amplitude) ==
    aperture_scan(h, els, aperture_amplitudes(n_particles, max_amplitude))

\* sigma = M @ sigma @ M, the transpose forgotten
track_sigma_step_no_transpose(M, sigma) == MatMul(MatMul(M, sigma), M)

\* sigma = M @ sigma @ M.T for each element in order
track_sigma_step(M, sigma) == MatMul(MatMul(M, sigma), Transpose(M))
RECURSIVE track_sigma_loop(_, _, _, _)
track_sigma_loop(h, els, sigma0, n) ==
    IF n = 0 THEN sigma0
    ELSE track_sigma_step(matrix_x(ElemAt(h, els, n)),
                          track_sigma_loop(h, els, sigma0, n - 1))
track_sigma_to_end(h, els, sigma0) == track_sigma_loop(h, els, sigma0, Len(els))

\* the attribute set_quadrupole_strengths assigns on a quadrupole
set_strength(elem, v) ==
    IF RGt(elem.length, Zero) THEN [elem EXCEPT !.k = v]
    ELSE [elem EXCEPT !.f_thin = v]

\* the loop of set_quadrupole_strengths from element i on; quad_index
\* counts the quadrupoles met so far (strengths is 1-based here)
RECURSIVE set_loop(_, _, _, _, _)
set_loop(h, els, strengths, i, quad_index) ==
    IF i > Len(els) THEN h
    ELSE IF IsQuad(ElemAt(h, els, i)) THEN
        set_loop(IF quad_index < Len(strengths)
                 THEN [h EXCEPT ![els[i]] = set_strength(@, strengths[quad_index + 1])]
                 ELSE h,
                 els, strengths, i + 1, quad_index + 1)
    ELSE set_loop(h, els, strengths, i + 1, quad_index)
set_quadrupole_strengths(h, els, strengths) == set_loop(h, els, strengths, 1, 0)

\* the attribute get_quadrupole_strengths reads on a quadrupole
get_strength(elem) == IF RGt(elem.length, Zero) THEN elem.k ELSE elem.f_thin

RECURSIVE get_loop(_, _, _)
get_loop(h, els, n) ==
    IF n = 0 THEN <<>>
    ELSE IF IsQuad(ElemAt(h, els, n))
         THEN Append(get_loop(h, els, n - 1), get_strength(ElemAt(h, els, n)))
         ELSE get_loop(h, els, n - 1)
get_quadrupole_strengths(h, els) == get_loop(h, els, Len(els))

\* reading an attribute that was never assigned raises AttributeError
get_quadrupole_strengths_exc(h, els) ==
    IF \E i \in 1..Len(els) :
          IsQuad(ElemAt(h, els, i)) /\ get_strength(ElemAt(h, els, i)) = Unset
    THEN "AttributeError" ELSE "None"

(***************************************************************************)
(* Twiss parameters (src/src/twiss.py) and matching (src/src/matching.py)  *)
(***************************************************************************)
make_sigma_from_twiss(beta, alpha, epsilon) ==
    Scale(epsilon, <<<<beta, RNeg(alpha)>>,
                     <<RNeg(alpha), RDiv(RAdd(One, RSq(alpha)), beta)>>>>)

\* get_twiss_from_sigma with alpha = sigma[0,1]/epsilon, the sign forgotten
get_twiss_from_sigma_sign(sigma, epsilon) ==
    [beta |-> RDiv(sigma[1][1], epsilon),
     alpha |-> RDiv(sigma[1][2], epsilon),
     gamma |-> RDiv(sigma[2][2], epsilon)]

get_twiss_from_sigma(sigma, epsilon) ==
    [beta |-> RDiv(sigma[1][1], epsilon),
     alpha |-> RDiv(RNeg(sigma[1][2]), epsilon),
     gamma |-> RDiv(sigma[2][2], epsilon)]

\* loss=(beta_calc-beta_target)**2+(alpha_calc-alpha_target)**2
loss_of(tw, beta_target, alpha_target) ==
    RAdd(RSq(RSub(tw.beta, beta_target)), RSq(RSub(tw.alpha, alpha_target)))

\* the loss of the lattice as it stands (steps 2-4 of matching_loss)
lattice_loss(h, els, sigma0, beta_target, alpha_target, epsilon) ==
    loss_of(get_twiss_from_sigma(track_sigma_to_end(h, els, sigma0), epsilon),
            beta_target, alpha_target)

\* steps 2-4 of matching_loss on the heap h2 that step 1 left
matching_loss_on(h2, els, sigma0, beta_target, alpha_target, epsilon) ==
    [heap |-> h2,
     exc |-> lattice_exc(h2, els),
     loss |-> IF lattice_exc(h2, els) = "None"
              THEN lattice_loss(h2, els, sigma0, beta_target, alpha_target, epsilon)
              ELSE None]

\* matching_loss: sets the strengths (heap), then evaluates the loss
matching_loss(strengths, h, els, sigma0, beta_target, alpha_target, epsilon) ==
    matching_loss_on(set_quadrupole_strengths(h, els, strengths), els, sigma0,
                     beta_target, alpha_target, epsilon)

(***************************************************************************)
(* scipy.optimize.minimize(method='Nelder-Mead') is a derivative-free      *)
(* search: it evaluates fun at x0, then at points of its choice (`probes`, *)
(* vectors of the dimension of x0), keeps the best vertex it has seen and  *)
(* returns it as result.x with result.fun = fun(result.x); success is      *)
(* False when the iteration cap stopped it.  An exception raised by fun    *)
(* propagates.                                                             *)
(***************************************************************************)
NoRun == [heap |-> <<>>, exc |-> "None", x |-> <<>>, fun |-> None, last_x |-> <<>>,
          nfev |-> 0]

\* the run o after fun(x) returned or raised r
minimize_keep(o, x, r) ==
    IF r.exc # "None" THEN [o EXCEPT !.heap = r.heap, !.exc = r.exc]
    ELSE IF o.nfev = 0 \/ RLt(r.loss, o.fun)
    THEN [heap |-> r.heap, exc |-> "None", x |-> x, fun |-> r.loss, last_x |-> x,
          nfev |-> o.nfev + 1]
    ELSE [o EXCEPT !.heap = r.heap, !.last_x = x, !.nfev = o.nfev + 1]

\* one evaluation of fun; o is the run so far
minimize_eval(o, x, els, sigma0, beta_target, alpha_target, epsilon) ==
    IF o.exc # "None" THEN o
    ELSE minimize_keep(o, x, matching_loss(x, o.heap, els, sigma0, beta_target,
                                           alpha_target, epsilon))

\* the run after the first n points of xs
RECURSIVE minimize_run(_, _, _, _, _, _, _, _)
minimize_run(h, xs, n, els, sigma0, beta_target, alpha_target, epsilon) ==
    IF n = 0 THEN [NoRun EXCEPT !.heap = h]
    ELSE minimize_eval(minimize_run(h, xs, n - 1, els, sigma0, beta_target,
                                    alpha_target, epsilon),
                       xs[n], els, sigma0, beta_target, alpha_target, epsilon)

minimize(x0, probes, h, els, sigma0, beta_target, alpha_target, epsilon) ==
    minimize_run(h, <<x0>> \o probes, Len(probes) + 1, els, sigma0, beta_target,
                 alpha_target, epsilon)

NoResult == [success |-> FALSE, message |-> "", iterations |-> 0, final_loss |-> None,
             optimal_strengths |-> <<>>]

\* match_beamline without its step 3: the lattice is left at the last
\* point the loss was evaluated at
match_return_last_point(els, x0, o, probes) ==
    IF o.exc # "None" THEN
        [heap |-> o.heap, exc |-> o.exc, result |-> NoResult, x0 |-> x0,
         last_x |-> o.last_x]
    ELSE
        [heap |-> o.heap, exc |-> "None",
         result |-> [success |-> Len(probes) < MaxEvals,
                     message |-> IF Len(probes) < MaxEvals
                                 THEN "Optimization terminated successfully."
                                 ELSE "Maximum number of iterations has been exceeded.",
                     iterations |-> Len(probes), final_loss |-> o.fun,
                     optimal_strengths |-> o.x],
         x0 |-> x0, last_x |-> o.last_x]

\* step 3 of match_beamline and its return value, o being the optimizer's run
match_return(els, x0, o, probes) ==
    IF o.exc # "None" THEN
        [heap |-> o.heap, exc |-> o.exc, result |-> NoResult, x0 |-> x0,
         last_x |-> o.last_x]
    ELSE
        [heap |-> set_quadrupole_strengths(o.heap, els, o.x), exc |-> "None",
         result |-> [success |-> Len(probes) < MaxEvals,
                     message |-> IF Len(probes) < MaxEvals
                                 THEN "Optimization terminated successfully."
                                 ELSE "Maximum number of iterations has been exceeded.",
                     iterations |-> Len(probes), final_loss |-> o.fun,
                     optimal_strengths |-> o.x],
         x0 |-> x0, last_x |-> o.last_x]

\* step 2 of match_beamline
match_minimize(h, els, sigma0, beta_target, alpha_target, x0, probes, epsilon) ==
    match_return(els, x0,
                 minimize(x0, probes, h, els, sigma0, beta_target, alpha_target,
                          epsilon),
                 probes)

\* match_beamline: the heap it leaves, the exception it raises, the record
\* it returns; `given` is FALSE for initial_guess=None
match_beamline(h, els, sigma0, beta_target, alpha_target, given, initial_guess, probes, epsilon) ==
    IF ~given /\ get_quadrupole_strengths_exc(h, els) # "None" THEN
        [heap |-> h, exc |-> get_quadrupole_strengths_exc(h, els),
         result |-> NoResult, x0 |-> <<>>, last_x |-> <<>>]
    ELSE match_minimize(h, els, sigma0, beta_target, alpha_target,
                        IF given THEN initial_guess
                        ELSE get_quadrupole_strengths(h, els),
                        probes, epsilon)

(***************************************************************************)
(* State                                                                   *)
(***************************************************************************)
VARIABLES
    heap,       \* the element objects constructed so far
    elements,   \* elements[b]: Beamline b's list of references
    ret         \* the last completed call: arguments, result, exception

vars == <<heap, elements, ret>>

Lattices == {"A", "B"}

\* inputs
Strengths == {R(-1), R(4)}
Vectors(n) == [1..n -> Strengths]
StrengthSeqs == UNION {Vectors(n) : n \in 0..MaxVals}
States4d == {<<One, Zero, One, Zero>>, <<Zero, One, Zero, R(-1)>>}
DefaultEpsilon == <<1, 1, 6>>       \* epsilon=1e-6

DriftArgs(L) == [cls |-> "Drift", L |-> L, k |-> None, length |-> L, f |-> None]
QuadArgs(k, length, f) == [cls |-> "Quadrupole", L |-> None, k |-> k, length |-> length, f |-> f]
DipoleArgs(rho, angle, length) == [cls |-> "Dipole", L |-> None, k |-> None, length |-> length, f |-> None, rho |-> rho, angle |-> angle]
SextupoleArgs(k2, length) == [cls |-> "Sextupole", L |-> None, k |-> None, length |-> length, f |-> None, k2 |-> k2]

\* Drift(1.0), Quadrupole(f=5.0), Quadrupole(k=1.0, length=1.0), Quadrupole()
CtorArgs == {DriftArgs(One), QuadArgs(None, Zero, R(5)),
             QuadArgs(One, One, None), QuadArgs(None, Zero, None)}

Construct_exc(a) ==
    IF a.cls = "Quadrupole" THEN Quadrupole_exc(a.k, a.length, a.f) ELSE "None"
Construct(a) ==
    IF a.cls = "Drift" THEN Drift(a.L)
    ELSE IF a.cls = "Dipole" THEN Dipole(a.rho, a.angle, a.length)
    ELSE IF a.cls = "Sextupole" THEN Sextupole(a.k2, a.length)
    ELSE Quadrupole(a.k, a.length, a.f)

NoStable == [stable |-> FALSE, trace_x |-> None, trace_y |-> None]
NoRet == [op |-> "none", bl |-> "A", exc |-> "None", args |-> <<>>, val |-> <<>>,
          stable |-> NoStable, result |-> NoResult, given |-> FALSE,
          x0 |-> <<>>, last_x |-> <<>>, pre |-> <<>>, turn |-> 0, traj |-> <<>>]

Init ==
    /\ heap = <<>>
    /\ elements = [b \in Lattices |-> <<>>]
    /\ ret = NoRet

(***************************************************************************)
(* Operations                                                              *)
(***************************************************************************)
\* b.add(Drift(..)) / b.add(Quadrupole(..)): a constructor that raises
\* leaves no object and nothing is added
AddNewOf(b, a, maxlen) ==
    /\ Len(elements[b]) < maxlen
    /\ IF Construct_exc(a) = "None"
       THEN /\ heap' = Append(heap, Construct(a))
            /\ elements' = [elements EXCEPT ![b] = Append(@, Len(heap) + 1)]
       ELSE UNCHANGED <<heap, elements>>
    /\ ret' = [NoRet EXCEPT !.op = "add", !.bl = b, !.exc = Construct_exc(a),
                            !.pre = heap]

AddNew(b, a) == Len(heap) < MaxObjs /\ AddNewOf(b, a, MaxLen)

\* b.add(q) for an object q that already exists
Add(b, id) ==
    /\ id \in 1..Len(heap)
    /\ Len(elements[b]) < MaxLen
    /\ elements' = [elements EXCEPT ![b] = Append(@, id)]
    /\ ret' = [NoRet EXCEPT !.op = "add", !.bl = b, !.pre = heap]
    /\ UNCHANGED heap

SetStrengths(b, values) ==
    /\ heap' = set_quadrupole_strengths(heap, elements[b], values)
    /\ ret' = [NoRet EXCEPT !.op = "set", !.bl = b, !.args = values, !.pre = heap]
    /\ UNCHANGED elements

GetStrengths(b) ==
    /\ ret' = [NoRet EXCEPT !.op = "get", !.bl = b,
                  !.exc = get_quadrupole_strengths_exc(heap, elements[b]),
                  !.val = IF get_quadrupole_strengths_exc(heap, elements[b]) = "None"
                          THEN get_quadrupole_strengths(heap, elements[b]) ELSE <<>>]
    /\ UNCHANGED <<heap, elements>>

\* one_turn_matrix with a cache that set_quadrupole_strengths does not
\* invalidate: right after a retuning it returns the product of the
\* lattice as it was before
OneTurnMatrix_stale(b) ==
    /\ ret' = [NoRet EXCEPT !.op = "otm", !.bl = b,
                  !.exc = lattice_exc(heap, elements[b]),
                  !.val = IF lattice_exc(heap, elements[b]) # "None" THEN <<>>
                          ELSE IF ret.op = "set"
                          THEN one_turn_matrix(ret.pre, elements[b])
                          ELSE one_turn_matrix(heap, elements[b])]
    /\ UNCHANGED <<heap, elements>>

OneTurnMatrix(b) ==
    /\ ret' = [NoRet EXCEPT !.op = "otm", !.bl = b,
                  !.exc = lattice_exc(heap, elements[b]),
                  !.val = IF lattice_exc(heap, elements[b]) = "None"
                          THEN one_turn_matrix(heap, elements[b]) ELSE <<>>]
    /\ UNCHANGED <<heap, elements>>

OneTurnMatrix4d(b) ==
    /\ ret' = [NoRet EXCEPT !.op = "otm4d", !.bl = b,
                  !.exc = lattice_exc(heap, elements[b]),
                  !.val = IF lattice_exc(heap, elements[b]) = "None"
                          THEN one_turn_matrix_4d(heap, elements[b]) ELSE <<>>]
    /\ UNCHANGED <<heap, elements>>

IsStable4d(b) ==
    /\ ret' = [NoRet EXCEPT !.op = "stable", !.bl = b,
                  !.exc = lattice_exc(heap, elements[b]),
                  !.stable = IF lattice_exc(heap, elements[b]) = "None"
                             THEN is_stable_4d(heap, elements[b]) ELSE NoStable]
    /\ UNCHANGED <<heap, elements>>

Track4d(b, state_4d) ==
    /\ ret' = [NoRet EXCEPT !.op = "track4d", !.bl = b, !.args = state_4d,
                  !.exc = lattice_exc(heap, elements[b]),
                  !.val = IF lattice_exc(heap, elements[b]) = "None"
                          THEN track_4d(heap, elements[b], state_4d) ELSE <<>>]
    /\ UNCHANGED <<heap, elements>>

(***************************************************************************)
(* match_beamline(b, sigma0, beta_target, alpha_target[, initial_guess])   *)
(* with the demo's beam: entrance beta=10, alpha=0, target beta=5, alpha=0 *)
(***************************************************************************)
NumQuads(h, els) == Cardinality({i \in 1..Len(els) : IsQuad(ElemAt(h, els, i))})
ProbeSeqs(n) == UNION {[1..m -> Vectors(n)] : m \in 0..MaxEvals}
DemoSigma0 == make_sigma_from_twiss(R(10), Zero, DefaultEpsilon)
DemoBetaTarget == R(5)
DemoAlphaTarget == Zero

\* the call has returned or raised m
MatchReturn(b, given, initial_guess, m) ==
    /\ heap' = m.heap
    /\ ret' = [NoRet EXCEPT !.op = "match", !.bl = b, !.exc = m.exc,
                  !.args = initial_guess, !.given = given, !.x0 = m.x0,
                  !.result = m.result, !.last_x = m.last_x, !.pre = heap]
    /\ UNCHANGED elements

MatchBeamline(b, given, initial_guess, probes) ==
    /\ NumQuads(heap, elements[b]) > 0
    /\ IF given THEN Len(initial_guess) = NumQuads(heap, elements[b])
       ELSE initial_guess = <<>>
    /\ MatchReturn(b, given, initial_guess,
                   match_beamline(heap, elements[b], DemoSigma0, DemoBetaTarget,
                                  DemoAlphaTarget, given, initial_guess, probes,
                                  DefaultEpsilon))

(***************************************************************************)
(* Spec: two lattices built from fresh and from shared element objects,    *)
(* retuned and queried                                                     *)
(***************************************************************************)
Next ==
    \/ \E b \in Lattices, a \in CtorArgs : AddNew(b, a)
    \/ \E b \in Lattices, id \in 1..MaxObjs : Add(b, id)
    \/ \E b \in Lattices, values \in StrengthSeqs : SetStrengths(b, values)
    \/ \E b \in Lattices : GetStrengths(b)

Spec == Init /\ [][Next]_vars

(***************************************************************************)
(* SpecMatch: one lattice built, retuned, matched, and its one-turn        *)
(* matrices queried                                                        *)
(***************************************************************************)
\* Drift(1.0), Quadrupole(f=5.0), Quadrupole(k=1.0, length=1.0)
MatchArgs == {DriftArgs(One), QuadArgs(None, Zero, R(5)), QuadArgs(One, One, None)}

NextMatch ==
    \/ \E a \in MatchArgs : AddNewOf("A", a, MaxLenMatch)
    \/ \E values \in StrengthSeqs : SetStrengths("A", values)
    \/ GetStrengths("A")
    \/ OneTurnMatrix("A")
    \/ OneTurnMatrix4d("A")
    \/ \E given \in BOOLEAN :
       \E initial_guess \in Vectors(NumQuads(heap, elements["A"])) \cup {<<>>} :
       \E probes \in ProbeSeqs(NumQuads(heap, elements["A"])) :
          MatchBeamline("A", given, initial_guess, probes)

SpecMatch == Init /\ [][NextMatch]_vars

(***************************************************************************)
(* SpecOrder: one lattice of up to MaxLenOrder elements, transported       *)
(***************************************************************************)
\* Drift(2.0), Quadrupole(f=5.0), Quadrupole(k=1.0, length=1.0),
\* Quadrupole(k=-1.0, length=1.0)
OrderArgs == {DriftArgs(Two), QuadArgs(None, Zero, R(5)), QuadArgs(One, One, None),
              QuadArgs(R(-1), One, None)}

NextOrder ==
    \/ \E a \in OrderArgs : AddNewOf("A", a, MaxLenOrder)
    \/ OneTurnMatrix("A")
    \/ OneTurnMatrix4d("A")
    \/ \E state_4d \in States4d : Track4d("A", state_4d)
    \/ IsStable4d("A")

SpecOrder == Init /\ [][NextOrder]_vars

(***************************************************************************)
(* SpecScenario: the matching demo, Quad(f=5)-Drift(1.5) three times       *)
(***************************************************************************)
ScenarioInit ==
    /\ heap = <<Quadrupole(None, Zero, R(5)), Drift(Q(3, 2)),
                Quadrupole(None, Zero, R(5)), Drift(Q(3, 2)),
                Quadrupole(None, Zero, R(5)), Drift(Q(3, 2))>>
    /\ elements = [b \in Lattices |-> IF b = "A" THEN <<1, 2, 3, 4, 5, 6>> ELSE <<>>]
    /\ ret = NoRet

ScenarioGuesses == {<<R(5), R(5), R(5)>>, <<R(4), One, R(4)>>, <<R(-1), R(4), One>>,
                    <<One, One, One>>}
ScenarioProbeSeqs == UNION {[1..m -> ScenarioGuesses] : m \in 0..MaxEvals}

NextScenario ==
    \/ \E given \in BOOLEAN, initial_guess \in ScenarioGuesses \cup {<<>>},
          probes \in ScenarioProbeSeqs :
          MatchBeamline("A", given, initial_guess, probes)
    \/ \E values \in ScenarioGuesses : SetStrengths("A", values)
    \/ GetStrengths("A")

SpecScenario == ScenarioInit /\ [][NextScenario]_vars

(***************************************************************************)
(* Properties of the strength interface, checked under Spec                *)
(***************************************************************************)
\* the strength of a quadrupole: the gradient k of a thick one, the focal
\* length f of a thin one
Strength(e) == IF RGt(e.length, Zero) THEN e.k ELSE e.f

\* the positions of the quadrupoles of a lattice, in lattice order
RECURSIVE QuadPositions(_, _, _)
QuadPositions(h, els, n) ==
    IF n = 0 THEN <<>>
    ELSE IF IsQuad(ElemAt(h, els, n)) THEN Append(QuadPositions(h, els, n - 1), n)
    ELSE QuadPositions(h, els, n - 1)

\* the lattice the last call was made on, and its quadrupoles
RetEls == elements[ret.bl]
RetQuads == QuadPositions(heap, RetEls, Len(RetEls))

SameTransport(e1, e2) ==
    /\ e1.k = e2.k
    /\ e1.f = e2.f
    /\ matrix_x(e1) = matrix_x(e2)
    /\ matrix_y(e1) = matrix_y(e2)

\* C1: A.set_quadrupole_strengths(values) changes neither the strength (k
\* or f) nor the transfer matrix of any element held by another Beamline,
\* an element object added to both lattices included.
C1_ElementOwnership ==
    ret.op = "set" =>
        \A b \in Lattices \ {ret.bl} : \A i \in 1..Len(elements[b]) :
            SameTransport(heap[elements[b][i]], ret.pre[elements[b][i]])

\* C2: after set_quadrupole_strengths(values) the i-th quadrupole in lattice
\* order holds values[i] for every i below min(len(values), q), every later
\* quadrupole keeps its strength, the excess values raise nothing, and no
\* other element, no element type and no element length changes.
C2_PositionalAddressing ==
    ret.op = "set" =>
        /\ ret.exc = "None"
        /\ Len(heap) = Len(ret.pre)
        /\ \A j \in 1..Len(RetQuads) :
              Strength(heap[RetEls[RetQuads[j]]]) =
                  IF j <= Len(ret.args) THEN ret.args[j]
                  ELSE Strength(ret.pre[RetEls[RetQuads[j]]])
        /\ \A i \in 1..Len(RetEls) :
              /\ heap[RetEls[i]].type = ret.pre[RetEls[i]].type
              /\ heap[RetEls[i]].length = ret.pre[RetEls[i]].length
              /\ ~IsQuad(heap[RetEls[i]]) => heap[RetEls[i]] = ret.pre[RetEls[i]]

ThinMatrixX(f) == <<<<One, Zero>>, <<RDiv(RNeg(One), f), One>>>>
ThinMatrixY(f) == <<<<One, Zero>>, <<RDiv(One, f), One>>>>

\* C3: after set_quadrupole_strengths(values) every thin quadrupole at a
\* quadrupole position i below len(values) transports with the focal
\* length values[i]: matrix_x = [[1,0],[-1/values[i],1]] and
\* matrix_y = [[1,0],[+1/values[i],1]].
C3_ThinFocalLength ==
    ret.op = "set" =>
        \A j \in 1..Len(RetQuads) :
            (j <= Len(ret.args) /\ heap[RetEls[RetQuads[j]]].length = Zero) =>
                /\ matrix_x(heap[RetEls[RetQuads[j]]]) = ThinMatrixX(ret.args[j])
                /\ matrix_y(heap[RetEls[RetQuads[j]]]) = ThinMatrixY(ret.args[j])

\* C4: get_quadrupole_strengths() returns without error, on a lattice that
\* was never retuned too, one value per quadrupole in lattice order: k of a
\* thick quadrupole, the current f of a thin one.
C4_GetStrengths ==
    ret.op = "get" =>
        /\ ret.exc = "None"
        /\ Len(ret.val) = Len(RetQuads)
        /\ \A j \in 1..Len(RetQuads) :
              ret.val[j] = Strength(heap[RetEls[RetQuads[j]]])

(***************************************************************************)
(* Properties of match_beamline, checked under SpecMatch and SpecScenario  *)
(***************************************************************************)
RECURSIVE StrengthsOf(_, _, _)
StrengthsOf(h, els, n) ==
    IF n = 0 THEN <<>>
    ELSE IF IsQuad(ElemAt(h, els, n))
         THEN Append(StrengthsOf(h, els, n - 1), Strength(ElemAt(h, els, n)))
         ELSE StrengthsOf(h, els, n - 1)

\* C5: match_beamline raises nothing and returns a record with success,
\* message, iterations, final_loss and optimal_strengths; without an
\* initial guess the search starts at the lattice's current strengths.
C5_MatchNeverFails ==
    ret.op = "match" =>
        /\ ret.exc = "None"
        /\ ret.result.success \in BOOLEAN
        /\ ret.result.message # ""
        /\ ret.result.iterations \in 0..MaxEvals
        /\ IsNum(ret.result.final_loss)
        /\ Len(ret.result.optimal_strengths) = Len(RetQuads)
        /\ ~ret.given => ret.x0 = StrengthsOf(ret.pre, RetEls, Len(RetEls))

\* the loss of lattice A for the demo's beam and target
DemoLoss(h) ==
    lattice_loss(h, elements["A"], DemoSigma0, DemoBetaTarget, DemoAlphaTarget,
                 DefaultEpsilon)

ExitBeta(h) ==
    get_twiss_from_sigma(track_sigma_to_end(h, elements["A"], DemoSigma0),
                         DefaultEpsilon).beta

\* C7: on Quad(f=5)-Drift(1.5) three times, entrance beta=10, alpha=0,
\* epsilon=1e-6, target beta=5, alpha=0, match_beamline ends with a final
\* loss below 1e-6 and leaves a lattice whose exit beta is within 1e-3 of 5.
C7_ScenarioConverges ==
    ret.op = "match" =>
        /\ ret.exc = "None"
        /\ RLt(ret.result.final_loss, <<1, 1, 6>>)
        /\ RLt(RAbs(RSub(ExitBeta(heap), R(5))), <<1, 1, 3>>)

(***************************************************************************)
(* Properties of the one-turn matrix, checked under SpecOrder (C8, C10)    *)
(* and SpecMatch (C9)                                                      *)
(***************************************************************************)
\* M_N . ... . M_i of the lattice, written from the left:
\* (M_N . ... . M_{i+1}) . M_i
RECURSIVE ProductX(_, _, _)
ProductX(h, els, i) ==
    IF i > Len(els) THEN Eye(2)
    ELSE MatMul(ProductX(h, els, i + 1), matrix_x(ElemAt(h, els, i)))
RECURSIVE ProductY(_, _, _)
ProductY(h, els, i) ==
    IF i > Len(els) THEN Eye(2)
    ELSE MatMul(ProductY(h, els, i + 1), matrix_y(ElemAt(h, els, i)))
RECURSIVE Product4d(_, _, _)
Product4d(h, els, i) ==
    IF i > Len(els) THEN Eye(4)
    ELSE MatMul(Product4d(h, els, i + 1), matrix_4d(ElemAt(h, els, i)))

\* M_1 . ... . M_n, the reversed product: M_1 . (M_2 . ... . M_n)
RECURSIVE ReversedX(_, _, _)
ReversedX(h, els, i) ==
    IF i > Len(els) THEN Eye(2)
    ELSE MatMul(matrix_x(ElemAt(h, els, i)), ReversedX(h, els, i + 1))

Commute(A, B) == MatMul(A, B) = MatMul(B, A)
SomeDoNotCommute(h, els) ==
    \E i, j \in 1..Len(els) :
        ~Commute(matrix_x(ElemAt(h, els, i)), matrix_x(ElemAt(h, els, j)))

\* C8 as stated: one_turn_matrix() is M_N . ... . M_1, and it differs from
\* the reversed product whenever the element matrices do not all commute.
C8_DiffersWheneverNotCommuting ==
    (ret.op = "otm" /\ ret.exc = "None") =>
        /\ ret.val = ProductX(heap, RetEls, 1)
        /\ SomeDoNotCommute(heap, RetEls) => ret.val # ReversedX(heap, RetEls, 1)

\* C8, amended: one_turn_matrix() is M_N . ... . M_1 and one_turn_matrix_4d()
\* likewise; one_turn_matrix_4d() applied to a state is track_4d(state);
\* the product differs from the reversed product for two elements whose
\* matrices do not commute (a mirror-symmetric lattice of non-commuting
\* elements equals its reversed product).
C8_CompositionOrder ==
    ret.exc = "None" =>
        /\ ret.op = "otm" => ret.val = ProductX(heap, RetEls, 1)
        /\ ret.op = "otm4d" => ret.val = Product4d(heap, RetEls, 1)
        /\ ret.op = "track4d" =>
              ret.val = MatVec(one_turn_matrix_4d(heap, RetEls), ret.args)
        /\ (ret.op = "otm" /\ Len(RetEls) = 2 /\ SomeDoNotCommute(heap, RetEls)) =>
              ret.val # ReversedX(heap, RetEls, 1)

\* one_turn_matrix() has returned on a lattice of three elements that do
\* not all commute
C8_Witness ==
    /\ ret.op = "otm" /\ ret.exc = "None"
    /\ Len(RetEls) = 3
    /\ SomeDoNotCommute(heap, RetEls)

\* the sequence of element matrices of lattice A
Matrices4d(h, els) == [i \in 1..Len(els) |-> matrix_4d(ElemAt(h, els, i))]

\* C9: every call of one_turn_matrix() / one_turn_matrix_4d() returns the
\* product of the element sequence and the element parameters as they are
\* at that call, and a call of add, set_quadrupole_strengths or
\* match_beamline that changes an element matrix changes the matrix the
\* next call returns.
C9_NeverStale ==
    [][/\ (ret'.op = "otm" /\ ret'.exc = "None") =>
             ret'.val = ProductX(heap', elements'["A"], 1)
       /\ (ret'.op = "otm4d" /\ ret'.exc = "None") =>
             ret'.val = Product4d(heap', elements'["A"], 1)
       /\ (/\ ret'.op \in {"add", "set", "match"}
           /\ lattice_exc(heap', elements'["A"]) = "None"
           /\ Matrices4d(heap', elements'["A"]) # Matrices4d(heap, elements["A"])) =>
             one_turn_matrix_4d(heap', elements'["A"]) #
                 one_turn_matrix_4d(heap, elements["A"])]_vars

\* one_turn_matrix() has returned right after a retuning that changed the
\* gradient of a thick quadrupole
C9_Witness ==
    /\ ret.op = "otm" /\ ret.exc = "None"
    /\ \E i \in 1..Len(RetEls) :
          /\ IsQuad(heap[RetEls[i]]) /\ RGt(heap[RetEls[i]].length, Zero)
          /\ heap[RetEls[i]].k # One

Trace(M) == RAdd(M[1][1], M[2][2])
Below2(t) == Sign(RSub(RAbs(t), Two)) < 0

\* C10: is_stable_4d() returns the traces of the horizontal and of the
\* vertical block of the one-turn matrix, and stable = true exactly when
\* both are below 2 in absolute value; a trace of exactly 2 or -2 in either
\* plane is unstable.
C10_StabilityCriterion ==
    (ret.op = "stable" /\ ret.exc = "None") =>
        /\ ret.stable.trace_x = Trace(ProductX(heap, RetEls, 1))
        /\ ret.stable.trace_y = Trace(ProductY(heap, RetEls, 1))
        /\ ret.stable.stable <=>
              (Below2(ret.stable.trace_x) /\ Below2(ret.stable.trace_y))
        /\ (RAbs(ret.stable.trace_x) = Two \/ RAbs(ret.stable.trace_y) = Two) =>
              ~ret.stable.stable

\* is_stable_4d() has found a lattice stable in both planes
C10_Witness ==
    /\ ret.op = "stable" /\ ret.exc = "None"
    /\ Len(RetEls) > 0
    /\ ret.stable.stable

(***************************************************************************)
(* Periodic solution (src/day4_stability.py; src/tests.py holds the same   *)
(* classes): one plane, Drift(L) and the thin Quadrupole(f)                *)
(***************************************************************************)
MaxLenPeriodic == 4     \* elements of the lattice in SpecPeriodic

day4_Drift(L) == [type |-> "Drift", length |-> L, L |-> L]
day4_Quadrupole(f) == [type |-> "Quadrupole", length |-> Zero, f |-> f]

\* Drift.matrix / Quadrupole.matrix
day4_matrix(e) ==
    IF IsQuad(e) THEN <<<<One, Zero>>, <<RDiv(RNeg(One), e.f), One>>>>
    ELSE <<<<One, e.L>>, <<Zero, One>>>>

\* M = np.eye(2); for elem in self.elements: M = elem.matrix() @ M
RECURSIVE day4_one_turn_loop(_, _, _)
day4_one_turn_loop(h, els, n) ==
    IF n = 0 THEN Eye(2)
    ELSE MatMul(day4_matrix(ElemAt(h, els, n)), day4_one_turn_loop(h, els, n - 1))
day4_one_turn_matrix(h, els) == day4_one_turn_loop(h, els, Len(els))

\* np.trace(M)
np_trace(M) == RAdd(M[1][1], M[2][2])

\* is_stable: abs(trace) < 2, trace
day4_is_stable_of(trace) ==
    [stable |-> RLt(RAbs(trace), Two), trace_x |-> trace, trace_y |-> None]
day4_is_stable(h, els) == day4_is_stable_of(np_trace(day4_one_turn_matrix(h, els)))

\* a numpy float division: dividing by zero yields inf or nan (and a
\* warning), not an exception
NotFinite == <<0, 0, 1>>
np_div(x, y) == IF x = NotFinite \/ y = NotFinite \/ y[1] = 0 THEN NotFinite ELSE RDiv(x, y)

\* the guard with the boundary let through: abs(trace) > 2
get_periodic_twiss_exc_gt(M) ==
    IF RGt(RAbs(np_trace(M)), Two) THEN "ValueError" ELSE "None"

\* if abs(trace) >= 2: raise ValueError(f'Lattice is unstable! Tr(M)={trace:.4f}')
get_periodic_twiss_exc(M) ==
    IF ~RLt(RAbs(np_trace(M)), Two) THEN "ValueError" ELSE "None"

\* the solution with gamma = M[1,0]/sin_mu
periodic_twiss_of_gamma(M, mu, sin_mu) ==
    <<np_div(M[1][2], sin_mu),
      np_div(RSub(M[1][1], M[2][2]), RMul(Two, sin_mu)),
      np_div(M[2][1], sin_mu),
      mu.turns>>

\* the solution with alpha = (M[1,1]-M[0,0])/(2*sin_mu)
periodic_twiss_of_alpha(M, mu, sin_mu) ==
    <<np_div(M[1][2], sin_mu),
      np_div(RSub(M[2][2], M[1][1]), RMul(Two, sin_mu)),
      np_div(RNeg(M[2][1]), sin_mu),
      mu.turns>>

\* beta, alpha, gamma, tune from M, mu and sin_mu
periodic_twiss_of(M, mu, sin_mu) ==
    <<np_div(M[1][2], sin_mu),
      np_div(RSub(M[1][1], M[2][2]), RMul(Two, sin_mu)),
      np_div(RNeg(M[2][1]), sin_mu),
      mu.turns>>
periodic_twiss_at(M, mu) == periodic_twiss_of(M, mu, SinAngle(mu))
get_periodic_twiss_from(M) == periodic_twiss_at(M, ArcCos(RDiv(np_trace(M), Two)))
get_periodic_twiss(h, els) == get_periodic_twiss_from(day4_one_turn_matrix(h, els))

\* bl.add(Drift(..)) / bl.add(Quadrupole(f=..))
Day4Args == {day4_Drift(Two), day4_Drift(R(4)), day4_Drift(R(12)),
             day4_Quadrupole(R(5)), day4_Quadrupole(R(-5))}

Day4Add(e) ==
    /\ Len(elements["A"]) < MaxLenPeriodic
    /\ heap' = Append(heap, e)
    /\ elements' = [elements EXCEPT !["A"] = Append(@, Len(heap) + 1)]
    /\ ret' = [NoRet EXCEPT !.op = "add", !.pre = heap]

Day4IsStable ==
    /\ ret' = [NoRet EXCEPT !.op = "is_stable", !.pre = heap,
                  !.stable = day4_is_stable(heap, elements["A"])]
    /\ UNCHANGED <<heap, elements>>

\* on ValueError ret.val holds the trace the message reports
GetPeriodicTwiss ==
    /\ ret' = [NoRet EXCEPT !.op = "periodic", !.pre = heap,
                  !.exc = get_periodic_twiss_exc(day4_one_turn_matrix(heap, elements["A"])),
                  !.val = IF get_periodic_twiss_exc(
                                  day4_one_turn_matrix(heap, elements["A"])) = "None"
                          THEN get_periodic_twiss(heap, elements["A"])
                          ELSE <<np_trace(day4_one_turn_matrix(heap, elements["A"]))>>]
    /\ UNCHANGED <<heap, elements>>

\* Element.track_sigma: M @ sigma_in @ M.T, for each element in order
\* (the loop of track_sigma_along, n_turns=1)
RECURSIVE day4_track_sigma_loop(_, _, _, _)
day4_track_sigma_loop(h, els, sigma0, n) ==
    IF n = 0 THEN sigma0
    ELSE track_sigma_step(day4_matrix(ElemAt(h, els, n)),
                          day4_track_sigma_loop(h, els, sigma0, n - 1))
day4_track_sigma(h, els, sigma0) == day4_track_sigma_loop(h, els, sigma0, Len(els))

\* beta, alpha, _, _ = bl.get_periodic_twiss();
\* sigma0 = make_sigma_from_twiss(beta, alpha, EPSILON); one pass of sigma0
TrackPeriodicSigma ==
    /\ ret.op = "periodic" /\ ret.exc = "None"
    /\ ret' = [NoRet EXCEPT !.op = "pass", !.pre = heap,
                  !.args = make_sigma_from_twiss(ret.val[1], ret.val[2], DefaultEpsilon),
                  !.val = day4_track_sigma(heap, elements["A"],
                              make_sigma_from_twiss(ret.val[1], ret.val[2],
                                                    DefaultEpsilon))]
    /\ UNCHANGED <<heap, elements>>

NextPeriodic ==
    \/ \E e \in Day4Args : Day4Add(e)
    \/ Day4IsStable
    \/ GetPeriodicTwiss
    \/ TrackPeriodicSigma

SpecPeriodic == Init /\ [][NextPeriodic]_vars

\* the trace of M_N . ... . M_1 of lattice A
RefTrace == Trace(ProductX(heap, elements["A"], 1))

\* C11: get_periodic_twiss() raises the domain error, reporting the trace,
\* exactly when |trace(one_turn_matrix())| >= 2, which is exactly when
\* is_stable() reports the lattice unstable; otherwise it returns (beta,
\* alpha, gamma, tune); either way the elements are left as they were.
C11_PeriodicDomainError ==
    ret.op = "periodic" =>
        /\ ret.exc \in {"None", "ValueError"}
        /\ ret.exc = "ValueError" <=> ~Below2(RefTrace)
        /\ ret.exc = "ValueError" <=> ~day4_is_stable(heap, elements["A"]).stable
        /\ ret.exc = "ValueError" => ret.val = <<RefTrace>>
        /\ ret.exc = "None" =>
              Len(ret.val) = 4 /\ \A i \in 1..4 : IsNum(ret.val[i])
        /\ heap = ret.pre

\* get_periodic_twiss() has raised on a lattice of four elements whose
\* trace is exactly 2 or -2
C11_Witness ==
    /\ ret.op = "periodic" /\ ret.exc = "ValueError"
    /\ Len(elements["A"]) = 4
    /\ RAbs(RefTrace) = Two

\* the tolerance of a comparison of floats, relative to 1 + |y|: four
\* decimal digits above the rounding of the mantissa (MantissaMax), as 1e-12
\* is to a double
TwissTol == <<1, 1, 4>>
Close(x, y) == RLe(RAbs(RSub(x, y)), RMul(TwissTol, RAdd(One, RAbs(y))))

\* C14: the (beta, alpha, gamma) get_periodic_twiss() returns for a stable
\* lattice satisfy beta * gamma - alpha^2 = 1 (to the tolerance of floats).
C14_PeriodicTwissIdentity ==
    (ret.op = "periodic" /\ ret.exc = "None") =>
        Close(RSub(RMul(ret.val[1], ret.val[3]), RSq(ret.val[2])), One)

\* get_periodic_twiss() has returned a solution with alpha # 0 on the FODO
\* cell Quadrupole(5), Drift(2), Quadrupole(-5), Drift(2)
C14_Witness ==
    /\ ret.op = "periodic" /\ ret.exc = "None"
    /\ heap = <<day4_Quadrupole(R(5)), day4_Drift(Two), day4_Quadrupole(R(-5)),
                day4_Drift(Two)>>
    /\ ret.val[2] # Zero

\* C15: the Sigma built by make_sigma_from_twiss from the periodic (beta,
\* alpha) of a stable lattice is a fixed point of one pass through all the
\* elements in order: the pass returns the same Sigma, hence the same beta
\* (to the tolerance of floats, on Sigma / epsilon).
C15_PeriodicFixedPoint ==
    ret.op = "pass" =>
        \A i, j \in 1..2 :
            Close(RDiv(ret.val[i][j], DefaultEpsilon),
                  RDiv(ret.args[i][j], DefaultEpsilon))

\* a pass of the periodic Sigma with alpha # 0 through four elements
C15_Witness ==
    /\ ret.op = "pass"
    /\ Len(elements["A"]) = 4
    /\ ret.args[1][2] # Zero


(***************************************************************************)
(* SpecSymplectic: one lattice of drifts, quadrupoles and dipoles, retuned *)
(* and queried for its one-turn matrix and for the transport of a Sigma    *)
(***************************************************************************)
MaxLenSymp == 3

\* Drift(1.0), Quadrupole(f=5.0), Quadrupole(k=1.0, length=1.0),
\* Quadrupole(k=-400.0, length=1.0), Dipole(rho=2.0, angle=1.0)
SympArgs == {DriftArgs(One), QuadArgs(None, Zero, R(5)), QuadArgs(One, One, None),
             QuadArgs(R(-400), One, None), DipoleArgs(Two, One, None)}

\* make_sigma_from_twiss(10.0, 0.0, 1e-6), make_sigma_from_twiss(1.0, 1.0, 1e-6)
SympSigmas == {make_sigma_from_twiss(R(10), Zero, DefaultEpsilon),
               make_sigma_from_twiss(One, One, DefaultEpsilon)}

\* set_quadrupole_strengths([4.0]), set_quadrupole_strengths([-1.0, 4.0])
SympStrengthSeqs == {<<R(4)>>, <<R(-1), R(4)>>}

\* the caller's array after track_sigma_to_end(sigma0): the method works on
\* sigma0.copy() and rebinds its local name, sigma0 is never written
track_sigma_caller(h, els, sigma0) == sigma0

TrackSigma(b, sigma0) ==
    /\ ret' = [NoRet EXCEPT !.op = "sigma", !.bl = b, !.args = sigma0,
                  !.exc = lattice_exc(heap, elements[b]),
                  !.last_x = track_sigma_caller(heap, elements[b], sigma0),
                  !.val = IF lattice_exc(heap, elements[b]) = "None"
                          THEN track_sigma_to_end(heap, elements[b], sigma0) ELSE <<>>]
    /\ UNCHANGED <<heap, elements>>

NextSymp ==
    \/ \E a \in SympArgs : AddNewOf("A", a, MaxLenSymp)
    \/ \E values \in SympStrengthSeqs : SetStrengths("A", values)
    \/ OneTurnMatrix("A")
    \/ \E sigma0 \in SympSigmas : TrackSigma("A", sigma0)

SpecSymplectic == Init /\ [][NextSymp]_vars

np_linalg_det(M) == RSub(RMul(M[1][1], M[2][2]), RMul(M[1][2], M[2][1]))

\* is_stable_4d()[0] of the lattice, False when a matrix cannot be computed
StableLattice(h, els) == lattice_exc(h, els) = "None" /\ is_stable_4d(h, els).stable

\* det(Sigma) / epsilon^2
DetOverEps2(sigma) == RDiv(RDiv(np_linalg_det(sigma), DefaultEpsilon), DefaultEpsilon)

\* C12: for a stable lattice and a valid entrance Sigma0,
\* det(track_sigma_to_end(Sigma0)) equals det(Sigma0) (to the tolerance of
\* floats), the returned Sigma is symmetric, and the caller's Sigma0 is as it
\* was before the call.
C12_EmittanceInvariance ==
    (ret.op = "sigma" /\ StableLattice(heap, elements["A"])) =>
        /\ Close(DetOverEps2(ret.val), DetOverEps2(ret.args))
        /\ Close(RDiv(ret.val[1][2], DefaultEpsilon), RDiv(ret.val[2][1], DefaultEpsilon))
        /\ ret.last_x = ret.args

\* a Sigma with alpha # 0 transported through a stable lattice of three
\* elements with a dipole and a thick quadrupole, and changed by it
C12_Witness ==
    /\ ret.op = "sigma" /\ StableLattice(heap, elements["A"])
    /\ Len(elements["A"]) = 3
    /\ \E i \in 1..3 : IsDipole(ElemAt(heap, elements["A"], i))
    /\ \E i \in 1..3 : IsQuad(ElemAt(heap, elements["A"], i))
    /\ ret.args[1][2] # Zero
    /\ ret.val # ret.args


\* a thick quadrupole whose phase advance sqrt(|k|) * length exceeds 4: its
\* cosh and sinh entries are large and nearly equal
Steep(e) == IsQuad(e) /\ RGt(e.length, Zero) /\ RGt(RMul(RAbs(e.k), RSq(e.length)), R(16))
Moderate(h, els) == \A i \in 1..Len(els) : ~Steep(ElemAt(h, els, i))

TwissBetas == {Q(1, 3), Q(1, 2), <<7, 1, 1>>, One, R(5), R(10)}
TwissAlphas == {R(-2), R(-1), Q(-1, 3), Zero, Q(1, 7), One, <<25, 1, 1>>}
TwissEpsilons == {<<1, 1, 9>>, <<3, 1, 7>>, DefaultEpsilon}

MakeSigma(beta, alpha, epsilon) ==
    /\ ret' = [NoRet EXCEPT !.op = "make", !.args = <<beta, alpha, epsilon>>,
                            !.val = make_sigma_from_twiss(beta, alpha, epsilon)]
    /\ UNCHANGED <<heap, elements>>

\* get_twiss_from_sigma(sigma, epsilon) on the Sigma just made, with the
\* same epsilon
GetTwiss ==
    /\ ret.op = "make"
    /\ ret' = [ret EXCEPT !.op = "twiss",
                          !.val = get_twiss_from_sigma(ret.val, ret.args[3])]
    /\ UNCHANGED <<heap, elements>>

NextTwiss ==
    \/ \E beta \in TwissBetas, alpha \in TwissAlphas, epsilon \in TwissEpsilons :
          MakeSigma(beta, alpha, epsilon)
    \/ GetTwiss

SpecTwiss == Init /\ [][NextTwiss]_vars

\* C16: for beta > 0, alpha and epsilon > 0,
\* get_twiss_from_sigma(make_sigma_from_twiss(beta, alpha, epsilon), epsilon)
\* returns (beta, alpha, gamma) with gamma = (1 + alpha^2) / beta (to the
\* tolerance of floats).
C16_TwissRoundTrip ==
    ret.op = "twiss" =>
        /\ Close(ret.val.beta, ret.args[1])
        /\ Close(ret.val.alpha, ret.args[2])
        /\ Close(ret.val.gamma, RDiv(RAdd(One, RSq(ret.args[2])), ret.args[1]))

\* the round trip of beta = 1/3, alpha = 1/7, epsilon = 3e-7
C16_Witness ==
    /\ ret.op = "twiss"
    /\ ret.args = <<Q(1, 3), Q(1, 7), <<3, 1, 7>>>>
    /\ ret.val.alpha # Zero


(***************************************************************************)
(* SpecElements: q = Quadrupole(k, length, f), then q.matrix_x(),          *)
(* q.matrix_y(), q.matrix_4d() and q.track_4d(state).  The heap holds q;   *)
(* a constructor that raises leaves no q.                                  *)
(***************************************************************************)
\* k: None, 0, 1e-11, 1e-10, -1e-10, 1, -1, 16, -16
ElemKs == {None, Zero, <<1, 1, 11>>, Tiny, RNeg(Tiny), One, R(-1), R(16), R(-16)}
\* length: -1, 0, 1
ElemLengths == {R(-1), Zero, One}
\* f: None, 0, 1, -1, 1/4
ElemFs == {None, Zero, One, R(-1), Q(1, 4)}
\* [x, x', y, y']: displaced in x and y with zero slopes
ElemStates == {<<One, Zero, One, Zero>>, <<Q(1, 100), Zero, Two, Zero>>}

NewQuadrupole(k, length, f) ==
    /\ heap' = IF Quadrupole_exc(k, length, f) = "None"
               THEN <<Quadrupole(k, length, f)>> ELSE <<>>
    /\ ret' = [NoRet EXCEPT !.op = "new", !.exc = Quadrupole_exc(k, length, f),
                            !.args = <<k, length, f>>]
    /\ UNCHANGED elements

QuadMatrixX ==
    /\ Len(heap) = 1
    /\ ret' = [NoRet EXCEPT !.op = "matrix_x", !.args = ret.args,
                  !.exc = matrix_exc(heap[1]),
                  !.val = IF matrix_exc(heap[1]) = "None" THEN matrix_x(heap[1]) ELSE <<>>]
    /\ UNCHANGED <<heap, elements>>

QuadMatrixY ==
    /\ Len(heap) = 1
    /\ ret' = [NoRet EXCEPT !.op = "matrix_y", !.args = ret.args,
                  !.exc = matrix_exc(heap[1]),
                  !.val = IF matrix_exc(heap[1]) = "None" THEN matrix_y(heap[1]) ELSE <<>>]
    /\ UNCHANGED <<heap, elements>>

QuadMatrix4d ==
    /\ Len(heap) = 1
    /\ ret' = [NoRet EXCEPT !.op = "matrix_4d", !.args = ret.args,
                  !.exc = matrix_exc(heap[1]),
                  !.val = IF matrix_exc(heap[1]) = "None" THEN matrix_4d(heap[1]) ELSE <<>>]
    /\ UNCHANGED <<heap, elements>>

QuadTrack4d(state_4d) ==
    /\ Len(heap) = 1
    /\ ret' = [NoRet EXCEPT !.op = "track_4d", !.args = ret.args, !.x0 = state_4d,
                  !.exc = matrix_exc(heap[1]),
                  !.val = IF matrix_exc(heap[1]) = "None"
                          THEN Element_track_4d(heap[1], state_4d) ELSE <<>>]
    /\ UNCHANGED <<heap, elements>>

NextElements ==
    \/ \E k \in ElemKs, length \in ElemLengths, f \in ElemFs : NewQuadrupole(k, length, f)
    \/ QuadMatrixX
    \/ QuadMatrixY
    \/ QuadMatrix4d
    \/ \E state_4d \in ElemStates : QuadTrack4d(state_4d)

SpecElements == Init /\ [][NextElements]_vars

\* C17: Quadrupole(...) without k and without f raises the
\* invalid-configuration error (ValueError) in the constructor, for every
\* length, and leaves no Quadrupole object.
C17_NeitherKNorF ==
    (ret.op = "new" /\ ret.args[1] = None /\ ret.args[3] = None) =>
        (ret.exc = "ValueError" /\ heap = <<>>)

\* Quadrupole(length=1.0) has raised
C17_Witness ==
    /\ ret.op = "new" /\ ret.args = <<None, One, None>>
    /\ ret.exc = "ValueError"

\* C18: a Quadrupole constructed from f = 0 (no k), thin or with a positive
\* length, never yields a matrix: matrix_x, matrix_y and matrix_4d raise.
C18_ZeroFocalLengthRaises ==
    (/\ ret.op \in {"matrix_x", "matrix_y", "matrix_4d"}
     /\ ret.args[1] = None /\ ret.args[3] = Zero
     /\ RLe(Zero, ret.args[2])) => ret.exc # "None"


\* q is a thick quadrupole
Thick(e) == IsQuad(e) /\ RGt(e.length, Zero)
AllNumbers(M) == \A i \in 1..Len(M) : \A j \in 1..Len(M[i]) : IsNum(M[i][j])

\* the form a plane with focusing strength s = k (x) or s = -k (y) takes
\* when |k| >= 1e-10
PlaneForm(s, length) ==
    IF RGt(s, Zero) THEN TrigMatrix(s, length) ELSE HypMatrix(RNeg(s), length)

\* C19: for a thick quadrupole matrix_x and matrix_y are the drift matrix
\* [[1,L],[0,1]] when |k| < 1e-10 and the trigonometric / hyperbolic form
\* when |k| >= 1e-10, the threshold included; no entry is the result of a
\* division by a zero sqrt(k).
C19_NearZeroFallback ==
    (ret.op \in {"matrix_x", "matrix_y"} /\ Len(heap) = 1 /\ Thick(heap[1])) =>
        /\ ret.exc = "None"
        /\ AllNumbers(ret.val)
        /\ ret.val = IF RLt(RAbs(heap[1].k), Tiny) THEN DriftMatrix(heap[1].length)
                     ELSE IF ret.op = "matrix_x" THEN PlaneForm(heap[1].k, heap[1].length)
                     ELSE PlaneForm(RNeg(heap[1].k), heap[1].length)

\* matrix_x of Quadrupole(k=1e-10, length=1.0): the trigonometric form, not
\* the drift
C19_Witness ==
    /\ ret.op = "matrix_x" /\ ret.args = <<Tiny, One, None>>
    /\ ret.val # DriftMatrix(One)
    /\ ret.val[2][1] = RNeg(Tiny)

\* pi^2, to 5 digits
PiSquared == <<98696, 1, 4>>

\* a state [x, x', y, y'] with x > 0, y > 0 and zero slopes
Displaced(s) == RGt(s[1], Zero) /\ s[2] = Zero /\ RGt(s[3], Zero) /\ s[4] = Zero

\* the thin lens has matrix_x = [[1,0],[-1/f,1]] and matrix_y = [[1,0],[1/f,1]]
ThinPlanes ==
    (ret.op \in {"matrix_x", "matrix_y"} /\ ret.exc = "None" /\ ~Thick(heap[1])) =>
        ret.val = IF ret.op = "matrix_x" THEN ThinMatrixX(heap[1].f)
                  ELSE ThinMatrixY(heap[1].f)

\* q has focused in X and defocused in Y for k > 0, the reverse for k < 0
SlopesOpposite ==
    IF RGt(heap[1].k, Zero) THEN RLt(ret.val[2], Zero) /\ RGt(ret.val[4], Zero)
    ELSE RGt(ret.val[2], Zero) /\ RLt(ret.val[4], Zero)

\* C20 as stated: the thin lens has matrix_x = [[1,0],[-1/f,1]] and
\* matrix_y = [[1,0],[1/f,1]], and every thick quadrupole with k > 0 sends a
\* particle entering with x > 0, y > 0 and zero slopes out with x' < 0 and
\* y' > 0 (the reverse for k < 0).
C20_OppositePlanesAlways ==
    /\ ThinPlanes
    /\ (ret.op = "track_4d" /\ Thick(heap[1]) /\ heap[1].k # Zero /\ Displaced(ret.x0))
           => SlopesOpposite

\* C20, amended: the thin-lens matrices are as stated, and a thick
\* quadrupole with |k| >= 1e-10 and sqrt(|k|) * length < pi sends a particle
\* entering with x > 0, y > 0 and zero slopes out with x' < 0 and y' > 0 for
\* k > 0, with x' > 0 and y' < 0 for k < 0.
C20_OppositePlanes ==
    /\ ThinPlanes
    /\ (/\ ret.op = "track_4d" /\ Thick(heap[1]) /\ Displaced(ret.x0)
        /\ ~RLt(RAbs(heap[1].k), Tiny)
        /\ RLt(RMul(RAbs(heap[1].k), RSq(heap[1].length)), PiSquared))
           => SlopesOpposite

\* Quadrupole(k=1.0, length=1.0) has tracked [1, 0, 1, 0] to x' < 0, y' > 0
C20_Witness ==
    /\ ret.op = "track_4d" /\ ret.args = <<One, One, None>>
    /\ ret.x0 = <<One, Zero, One, Zero>>
    /\ RLt(ret.val[2], Zero) /\ RGt(ret.val[4], Zero)


(***************************************************************************)
(* SpecPlanes: one lattice of drifts, thin and thick quadrupoles and       *)
(* dipoles, queried in 2D and in 4D                                        *)
(***************************************************************************)
MaxLenPlanes == 4

\* Drift(2.0), Quadrupole(f=5.0), Quadrupole(f=-5.0),
\* Quadrupole(k=1.0, length=1.0), Dipole(rho=2.0, angle=1.0)
PlaneArgs == {DriftArgs(Two), QuadArgs(None, Zero, R(5)), QuadArgs(None, Zero, R(-5)),
              QuadArgs(One, One, None), DipoleArgs(Two, One, None)}

\* [x, x', y, y']
PlaneStates == {<<One, Zero, Zero, Zero>>, <<One, Q(1, 2), R(-1), Two>>}

IsStable(b) ==
    /\ ret' = [NoRet EXCEPT !.op = "is_stable", !.bl = b,
                  !.exc = lattice_exc(heap, elements[b]),
                  !.stable = IF lattice_exc(heap, elements[b]) = "None"
                             THEN is_stable(heap, elements[b]) ELSE NoStable]
    /\ UNCHANGED <<heap, elements>>

GetLength(b) ==
    /\ ret' = [NoRet EXCEPT !.op = "get_length", !.bl = b,
                            !.val = <<get_length(heap, elements[b])>>]
    /\ UNCHANGED <<heap, elements>>

NextPlanes ==
    \/ \E a \in PlaneArgs : AddNewOf("A", a, MaxLenPlanes)
    \/ OneTurnMatrix4d("A")
    \/ \E state_4d \in PlaneStates : Track4d("A", state_4d)
    \/ IsStable("A")
    \/ GetLength("A")

SpecPlanes == Init /\ [][NextPlanes]_vars

\* M is block diagonal with Mx at rows/cols 1..2 and My at rows/cols 3..4
BlockDiagonal(M, Mx, My) ==
    /\ \A i, j \in 1..2 : M[i][j] = Mx[i][j] /\ M[i + 2][j + 2] = My[i][j]
    /\ \A i, j \in 1..2 : M[i][j + 2] = Zero /\ M[i + 2][j] = Zero

\* a 2D state passed through the elements 1..n with the matrices of one plane
RECURSIVE PlaneTrackX(_, _, _, _)
PlaneTrackX(h, els, v, n) ==
    IF n = 0 THEN v ELSE MatVec(matrix_x(ElemAt(h, els, n)), PlaneTrackX(h, els, v, n - 1))
RECURSIVE PlaneTrackY(_, _, _, _)
PlaneTrackY(h, els, v, n) ==
    IF n = 0 THEN v ELSE MatVec(matrix_y(ElemAt(h, els, n)), PlaneTrackY(h, els, v, n - 1))

\* C21: every element's matrix_4d is block diagonal with matrix_x at
\* rows/cols [0:2], matrix_y at [2:4] and zeros elsewhere; one_turn_matrix_4d()
\* is block diagonal with the block [0:2,0:2] equal to one_turn_matrix(); and
\* track_4d gives (x, x') from the input (x, x') alone and (y, y') from the
\* input (y, y') alone.
C21_BlockDiagonal ==
    /\ \A i \in 1..Len(heap) : matrix_exc(heap[i]) = "None" =>
           BlockDiagonal(matrix_4d(heap[i]), matrix_x(heap[i]), matrix_y(heap[i]))
    /\ (ret.op = "otm4d" /\ ret.exc = "None") =>
           BlockDiagonal(ret.val, one_turn_matrix(heap, RetEls), ProductY(heap, RetEls, 1))
    /\ (ret.op = "track4d" /\ ret.exc = "None") =>
           /\ <<ret.val[1], ret.val[2]>> =
                 PlaneTrackX(heap, RetEls, <<ret.args[1], ret.args[2]>>, Len(RetEls))
           /\ <<ret.val[3], ret.val[4]>> =
                 PlaneTrackY(heap, RetEls, <<ret.args[3], ret.args[4]>>, Len(RetEls))

\* a state with all four coordinates set, tracked through four elements, a
\* thick quadrupole and a dipole among them
C21_Witness ==
    /\ ret.op = "track4d" /\ ret.exc = "None"
    /\ Len(RetEls) = 4
    /\ \E i \in 1..4 : IsDipole(ElemAt(heap, RetEls, i))
    /\ \E i \in 1..4 : Thick(ElemAt(heap, RetEls, i))
    /\ ret.args = <<One, Q(1, 2), R(-1), Two>>
    /\ ret.val # ret.args


\* the lattice is Quad(f=5) - Drift(2) - Quad(f=-5) - Drift(2)
IsFodo(h, els) ==
    /\ Len(els) = 4
    /\ ElemAt(h, els, 1) = Quadrupole(None, Zero, R(5))
    /\ ElemAt(h, els, 2) = Drift(Two)
    /\ ElemAt(h, els, 3) = Quadrupole(None, Zero, R(-5))
    /\ ElemAt(h, els, 4) = Drift(Two)

\* is_stable() has returned for the FODO lattice, with the trace of the
\* product of the four element matrices
FodoReported ==
    /\ ret.op = "is_stable" /\ ret.exc = "None" /\ IsFodo(heap, RetEls)
    /\ ret.stable.trace_x = Trace(ProductX(heap, RetEls, 1))

\* C25 as stated: is_stable() reports the FODO lattice
\* Quad(f=5)-Drift(2)-Quad(f=-5)-Drift(2) stable, with the exact trace of the
\* product of the four matrices, which is approximately 1.92 (within 0.01).
C25_FodoTrace192 ==
    (ret.op = "is_stable" /\ IsFodo(heap, RetEls)) =>
        /\ FodoReported /\ ret.stable.stable
        /\ RLe(RAbs(RSub(ret.stable.trace_x, <<192, 1, 2>>)), <<1, 1, 2>>)

\* C25, amended: is_stable() reports the FODO lattice stable, with the exact
\* trace of the product of the four matrices, which is 46/25 = 1.84.
C25_FodoStable ==
    (ret.op = "is_stable" /\ IsFodo(heap, RetEls)) =>
        /\ FodoReported /\ ret.stable.stable
        /\ ret.stable.trace_x = <<184, 1, 2>>

\* is_stable() has returned (True, trace) for the FODO lattice
C25_Witness == FodoReported /\ ret.stable.stable

\* C28: is_stable() returns (stable, trace) with trace the trace of
\* one_turn_matrix() and stable = (|trace| < 2), whatever the vertical
\* plane does.
C28_StableAgreesWithTrace ==
    (ret.op = "is_stable" /\ ret.exc = "None") =>
        /\ ret.stable.trace_x = Trace(one_turn_matrix(heap, RetEls))
        /\ ret.stable.stable <=> Below2(ret.stable.trace_x)


(***************************************************************************)
(* SpecDipole: bl = Beamline().add(Dipole(rho, angle[, length])), drifts   *)
(* of 1 m added after it; every step keeps the constructor's arguments in  *)
(* ret.args                                                                *)
(***************************************************************************)
MaxLenDipole == 3

\* rho: 1, 2, 10; angle: 1/2, 1, 2; length: None, -1, 0, 1, 3
DipoleRhos == {One, Two, R(10)}
DipoleAngles == {Q(1, 2), One, Two}
DipoleLengths == {None, R(-1), Zero, One, R(3)}

NewDipole(rho, angle, length) ==
    /\ heap' = <<Dipole(rho, angle, length)>>
    /\ elements' = [b \in Lattices |-> IF b = "A" THEN <<1>> ELSE <<>>]
    /\ ret' = [NoRet EXCEPT !.op = "new_dipole", !.args = <<rho, angle, length>>]

AddDriftAfter ==
    /\ Len(heap) \in 1..(MaxLenDipole - 1)
    /\ heap' = Append(heap, Drift(One))
    /\ elements' = [elements EXCEPT !["A"] = Append(@, Len(heap) + 1)]
    /\ ret' = [NoRet EXCEPT !.op = "add", !.args = ret.args]

DipoleMatrixY ==
    /\ Len(heap) >= 1
    /\ ret' = [NoRet EXCEPT !.op = "matrix_y", !.args = ret.args,
                            !.val = matrix_y(heap[1])]
    /\ UNCHANGED <<heap, elements>>

DipoleGetLength ==
    /\ Len(heap) >= 1
    /\ ret' = [NoRet EXCEPT !.op = "get_length", !.args = ret.args,
                            !.val = <<get_length(heap, elements["A"])>>]
    /\ UNCHANGED <<heap, elements>>

NextDipole ==
    \/ \E rho \in DipoleRhos, angle \in DipoleAngles, length \in DipoleLengths :
          NewDipole(rho, angle, length)
    \/ AddDriftAfter
    \/ DipoleMatrixY
    \/ DipoleGetLength

SpecDipole == Init /\ [][NextDipole]_vars

\* the length the claim gives a Dipole(rho, angle, length)
DipoleLengthOf(args) == IF args[3] = None THEN RMul(args[1], args[2]) ELSE args[3]

\* C26: Dipole(rho, angle) without a length has length rho*angle, a given
\* length is kept as given; matrix_y is the drift matrix [[1,length],[0,1]]
\* of that length, and get_length() counts that length.
C26_DipoleLength ==
    Len(heap) >= 1 =>
        /\ heap[1].length = DipoleLengthOf(ret.args)
        /\ ret.op = "matrix_y" => ret.val = <<<<One, DipoleLengthOf(ret.args)>>, <<Zero, One>>>>
        /\ ret.op = "get_length" =>
              ret.val[1] = RAdd(DipoleLengthOf(ret.args), R(Len(heap) - 1))

\* get_length() of Dipole(10, 1/2, length=0) followed by two drifts
C26_Witness ==
    /\ ret.op = "get_length" /\ ret.args = <<R(10), Q(1, 2), Zero>>
    /\ Len(elements["A"]) = 3
    /\ ret.val = <<Two>>


\* C30: every Quadrupole the constructor accepts, f = 0 apart, is usable:
\* matrix_x() and matrix_y() return a 2x2 matrix without raising.
C30_ConstructedIsUsable ==
    (/\ ret.op \in {"matrix_x", "matrix_y"}
     /\ Len(heap) = 1 /\ IsQuad(heap[1])
     /\ ret.args[3] # Zero) =>
        /\ ret.exc = "None"
        /\ Len(ret.val) = 2 /\ Len(ret.val[1]) = 2 /\ Len(ret.val[2]) = 2


\* C29: for every lattice of drifts and thin quadrupoles that is_stable()
\* reports stable, get_periodic_twiss() returns beta > 0, gamma > 0 and a
\* tune in the open interval (0, 1/2).
C29_PhysicalPeriodicTwiss ==
    (ret.op = "periodic" /\ day4_is_stable(heap, elements["A"]).stable) =>
        /\ ret.exc = "None"
        /\ RGt(ret.val[1], Zero) /\ RGt(ret.val[3], Zero)
        /\ RGt(ret.val[4], Zero) /\ RLt(ret.val[4], Q(1, 2))

(***************************************************************************)
(* SpecNonlinear: one lattice of drifts, quadrupoles and sextupoles; a     *)
(* particle is tracked through it by track_particle_nonlinear, turn after  *)
(* turn                                                                    *)
(***************************************************************************)
MaxLenNl == 3
MaxTurnsNl == 3

\* Drift(2.0), Quadrupole(f=5.0), Quadrupole(k=1.0, length=1.0),
\* Sextupole(k2=10.0, length=0.1)
NlArgs == {DriftArgs(Two), QuadArgs(None, Zero, R(5)), QuadArgs(One, One, None),
           SextupoleArgs(R(10), Q(1, 10))}

ZeroState == <<Zero, Zero, Zero, Zero>>
NlStates == {ZeroState, <<Q(1, 100), Zero, Zero, Zero>>,
             <<Q(1, 100), Q(1, 1000), Q(-1, 50), Zero>>}

\* the value of `state` after each iteration of the loop over the elements
NlTrajectory(h, els, state_4d) ==
    [i \in 1..Len(els) |-> track_particle_nonlinear_loop(h, els, state_4d, i)]

\* one turn from `state_4d`; x0 is the state the first turn started from
TrackTurn(b, state_4d, x0, turn) ==
    /\ ret' = [NoRet EXCEPT !.op = "track_nl", !.bl = b, !.args = state_4d,
                  !.x0 = x0, !.turn = turn,
                  !.exc = lattice_exc(heap, elements[b]),
                  !.traj = IF lattice_exc(heap, elements[b]) = "None"
                           THEN NlTrajectory(heap, elements[b], state_4d) ELSE <<>>,
                  !.val = IF lattice_exc(heap, elements[b]) = "None"
                          THEN track_particle_nonlinear(heap, elements[b], state_4d)
                          ELSE <<>>]
    /\ UNCHANGED <<heap, elements>>

\* state = b.track_particle_nonlinear(state_4d)
TrackParticleNonlinear(b, state_4d) == TrackTurn(b, state_4d, state_4d, 1)

\* state = b.track_particle_nonlinear(state): the next turn
TrackNextTurn(b) ==
    /\ ret.op = "track_nl" /\ ret.bl = b /\ ret.exc = "None"
    /\ ret.turn < MaxTurnsNl
    /\ TrackTurn(b, ret.val, ret.x0, ret.turn + 1)

NextNl ==
    \/ \E a \in NlArgs : AddNewOf("A", a, MaxLenNl)
    \/ \E state_4d \in NlStates : TrackParticleNonlinear("A", state_4d)
    \/ TrackNextTurn("A")

SpecNonlinear == Init /\ [][NextNl]_vars

HasSextupole(h, els) == \E i \in 1..Len(els) : IsSextupole(ElemAt(h, els, i))

\* C22: a particle that starts on the axis, [0, 0, 0, 0], and is tracked by
\* track_particle_nonlinear through a lattice containing a Sextupole is
\* returned as [0, 0, 0, 0] exactly, after every turn.
C22_OnAxisNeutral ==
    (/\ ret.op = "track_nl" /\ ret.exc = "None" /\ ret.x0 = ZeroState
     /\ HasSextupole(heap, RetEls))
        => ret.val = ZeroState

\* the second turn of the on-axis particle through three elements, one of
\* them a sextupole, has returned
C22_Witness ==
    /\ ret.op = "track_nl" /\ ret.exc = "None" /\ ret.x0 = ZeroState
    /\ ret.turn = 2 /\ Len(RetEls) = 3 /\ HasSextupole(heap, RetEls)
    /\ IsQuad(heap[RetEls[1]])
    /\ ret.val = ZeroState

\* the slope kicks of the thin sextupole at (x, y)
KickX(e, s) == RMul(RMul(RMul(Q(-1, 2), e.k2), e.length), RSub(RSq(s[1]), RSq(s[3])))
KickY(e, s) == RMul(RMul(RMul(e.k2, e.length), s[1]), s[3])

\* element e has taken the state `before` to `after`: by its kick map, which
\* keeps x and y, when it is a sextupole, by its 4x4 matrix otherwise
StepOf(e, before, after) ==
    IF IsSextupole(e) THEN
        /\ after[1] = before[1] /\ after[3] = before[3]
        /\ after[2] = RAdd(before[2], KickX(e, before))
        /\ after[4] = RAdd(before[4], KickY(e, before))
    ELSE after = MatVec(matrix_4d(e), before)

StateBefore(i) == IF i = 1 THEN ret.args ELSE ret.traj[i - 1]

\* C27: track_particle_nonlinear visits the elements in lattice order; each
\* Sextupole acts by its kick map, which leaves x and y unchanged and changes
\* only the slopes, every other element by its linear 4D matrix; through a
\* lattice with no Sextupole the result equals that of track_4d.
C27_MixedComposition ==
    (ret.op = "track_nl" /\ ret.exc = "None") =>
        /\ Len(ret.traj) = Len(RetEls)
        /\ \A i \in 1..Len(RetEls) :
               StepOf(ElemAt(heap, RetEls, i), StateBefore(i), ret.traj[i])
        /\ ret.val = StateBefore(Len(RetEls) + 1)
        /\ ~HasSextupole(heap, RetEls) => ret.val = track_4d(heap, RetEls, ret.args)

\* an off-axis particle with slopes has passed a quadrupole, a sextupole
\* that changed both slopes, and a drift
C27_Witness ==
    /\ ret.op = "track_nl" /\ ret.exc = "None" /\ Len(RetEls) = 3
    /\ ret.args = <<Q(1, 100), Q(1, 1000), Q(-1, 50), Zero>>
    /\ IsQuad(heap[RetEls[1]]) /\ IsSextupole(heap[RetEls[2]])
    /\ heap[RetEls[3]].type = "Drift"
    /\ ret.traj[2][2] # ret.traj[1][2] /\ ret.traj[2][4] # ret.traj[1][4]
    /\ ret.traj[2][1] = ret.traj[1][1]
    /\ ret.val # ret.traj[2]

(***************************************************************************)
(* SpecAperture: one lattice of drifts, thin quadrupoles and sextupoles,   *)
(* scanned by get_dynamic_aperture                                         *)
(***************************************************************************)
MaxLenAp == 2
MaxParticles == 3

\* Drift(2.0), Quadrupole(f=5.0), Quadrupole(f=-5.0),
\* Sextupole(k2=10.0, length=0.1)
ApArgs == {DriftArgs(Two), QuadArgs(None, Zero, R(5)), QuadArgs(None, Zero, R(-5)),
           SextupoleArgs(R(10), Q(1, 10))}

\* max_amplitude: 0.0005, 0.01 (the default), 0.1, 0.5
ApMaxAmplitudes == {<<5, 1, 4>>, <<1, 1, 2>>, <<1, 1, 1>>, <<5, 1, 1>>}

\* the scans made: no particle, one, and the largest number with each
\* max_amplitude
ApScans == {<<0, <<1, 1, 2>>>>, <<1, <<1, 1, 2>>>>} \cup ({MaxParticles} \X ApMaxAmplitudes)

ApertureRet(b, n_particles, max_amplitude, amplitudes, scan) ==
    [NoRet EXCEPT !.op = "aperture", !.bl = b, !.args = <<R(n_particles), max_amplitude>>,
                  !.turn = n_particles,
                  !.val = <<amplitudes, [i \in 1..Len(scan) |-> scan[i].stable]>>,
                  !.traj = [i \in 1..Len(scan) |-> scan[i].seen]]

\* amplitudes, stable_mask = b.get_dynamic_aperture(n_particles, max_amplitude)
GetDynamicAperture(b, n_particles, max_amplitude) ==
    /\ ret' = ApertureRet(b, n_particles, max_amplitude,
                          aperture_amplitudes(n_particles, max_amplitude),
                          get_dynamic_aperture(heap, elements[b], n_particles, max_amplitude))
    /\ UNCHANGED <<heap, elements>>

NextAp ==
    \/ \E a \in ApArgs : AddNewOf("A", a, MaxLenAp)
    \/ \E c \in ApScans : GetDynamicAperture("A", c[1], c[2])

SpecAperture == Init /\ [][NextAp]_vars

ApN == ret.turn
ApAmplitudes == ret.val[1]
ApStableMask == ret.val[2]

\* |x| <= 0.1 and |y| <= 0.1
WithinAperture(s) == RLe(RAbs(s[1]), ApertureBound) /\ RLe(RAbs(s[3]), ApertureBound)

\* the state particle i had before turn t
ApBefore(i, t) == IF t = 1 THEN <<ApAmplitudes[i], Zero, Zero, Zero>> ELSE ret.traj[i][t - 1]

\* particle i: its turns are those of track_particle_nonlinear from
\* [a, 0, 0, 0], at most 100 of them; all but the last end within the
\* aperture; the mask is true exactly when the last does too, and then all
\* 100 turns were made
ApParticle(i) ==
    /\ Len(ret.traj[i]) \in 1..Turns
    /\ \A t \in 1..Len(ret.traj[i]) :
           ret.traj[i][t] = track_particle_nonlinear(heap, RetEls, ApBefore(i, t))
    /\ \A t \in 1..(Len(ret.traj[i]) - 1) : WithinAperture(ret.traj[i][t])
    /\ ApStableMask[i] = WithinAperture(ret.traj[i][Len(ret.traj[i])])
    /\ ApStableMask[i] => Len(ret.traj[i]) = Turns

RECURSIVE ApTurnsMade(_)
ApTurnsMade(n) == IF n = 0 THEN 0 ELSE ApTurnsMade(n - 1) + Len(ret.traj[n])

\* C23: get_dynamic_aperture(n, max_amplitude) returns two arrays of length
\* n; the particle started at [a, 0, 0, 0] is flagged unstable exactly when
\* after some turn t in 1..100 it has |x| > 0.1 or |y| > 0.1, its tracking
\* stops at the first such turn, and it is flagged stable when all 100 turns
\* stay within the bound; the scan ends after at most 100 * n turns.
C23_ApertureClassification ==
    ret.op = "aperture" =>
        /\ Len(ApAmplitudes) = ApN /\ Len(ApStableMask) = ApN
        /\ \A i \in 1..ApN : ApParticle(i)
        /\ ApTurnsMade(ApN) <= Turns * ApN

\* a scan of three particles through a sextupole and a drift: the first
\* survives 100 turns, the others are lost after more than one turn
C23_Witness ==
    /\ ret.op = "aperture" /\ ApN = 3 /\ HasSextupole(heap, RetEls)
    /\ ApStableMask[1] /\ Len(ret.traj[1]) = Turns
    /\ ~ApStableMask[2] /\ Len(ret.traj[2]) \in 2..(Turns - 1)
    /\ ~ApStableMask[3] /\ Len(ret.traj[3]) < Len(ret.traj[2])

\* C24: the amplitudes of get_dynamic_aperture(n_particles, max_amplitude)
\* form a geometric sweep, with a constant ratio between consecutive
\* amplitudes, that starts at a small positive floor and increases up to
\* max_amplitude, for every max_amplitude > 0.
C24_GeometricSweep ==
    (ret.op = "aperture" /\ ApN >= 1) =>
        /\ RGt(ApAmplitudes[1], Zero)
        /\ ApAmplitudes[ApN] = ret.args[2]
        /\ \A i \in 1..(ApN - 1) : RLt(ApAmplitudes[i], ApAmplitudes[i + 1])
        /\ \A i \in 2..(ApN - 1) :
               RSq(ApAmplitudes[i]) = RMul(ApAmplitudes[i - 1], ApAmplitudes[i + 1])

====
